---------------------------- MODULE Spec2Model ----------------------------
(***************************************************************************)
(* A model of the colormyhouse pixel pipeline: the colour transform engine *)
(* (services/colorProcessor.ts), the polygon rasteriser and the heuristic  *)
(* region classifier (services/segmentation.ts, first SegmentationService).*)
(*                                                                         *)
(* Numbers.  The code computes in IEEE-754 doubles; the model computes in  *)
(* exact rationals held as integer numerators over positive denominators.  *)
(* The two agree except where an exact value lies on a rounding boundary   *)
(* (x.5 for Math.round): there the double may fall on either side, so the  *)
(* model lets Math.round return either neighbour (JsRound is a set).       *)
(***************************************************************************)
EXTENDS Integers, Sequences, FiniteSets, TLC

VARIABLES
    \* ---- colour conversion round trip (rgbToHsl / hslToRgb) ----
    conv,
    \* ---- colour transform engine (applyColorChange / createPreview) ----
    heap,       \* live pixel buffers: buffer id -> [width, height, data]
    mask,       \* the combined selection mask handed to the engine
    last,       \* what the latest engine call did
    \* ---- polygon rasteriser (polygonToMask) ----
    poly,
    \* ---- region classifier (analyzeImageContent) ----
    img,
    seg,
    \* ---- the editor component (CanvasEditor.tsx) ----
    ed,
    \* ---- the application shell (App.tsx, useSegmentation.ts, store) ----
    app,
    \* ---- the segmentation viewer (SegmentationViewer.tsx) ----
    view

vars == <<conv, heap, mask, last, poly, img, seg, ed, app, view>>

convVars == <<conv>>
colorVars == <<heap, mask, last>>
polyVars == <<poly>>
segVars == <<img, seg>>
uiVars == <<ed, app, view>>

\* Each part of the program is checked on its own; the state of the parts
\* that are not running stays at these values.
ConvIdle == [pc |-> "idle"]
LastIdle == [kind |-> "none"]
PolyIdleState == [pc |-> "idle"]
SegIdleState == [pc |-> "idle"]
ColorIdle == heap = <<>> /\ mask = <<>> /\ last = LastIdle
PolyIdle == poly = PolyIdleState
SegIdle == img = SegIdleState /\ seg = SegIdleState
EdIdleState == [pc |-> "idle"]
AppIdleState == [pc |-> "idle"]
ViewIdleState == [pc |-> "idle"]
UiIdle == ed = EdIdleState /\ app = AppIdleState /\ view = ViewIdleState

(***************************************************************************)
(* Arithmetic helpers                                                      *)
(***************************************************************************)
Max2(a, b) == IF a >= b THEN a ELSE b
Min2(a, b) == IF a <= b THEN a ELSE b
Max3(a, b, c) == Max2(a, Max2(b, c))
Min3(a, b, c) == Min2(a, Min2(b, c))
Abs(a) == IF a < 0 THEN -a ELSE a

\* floor(n / d) and ceil(n / d) for d > 0
FloorDiv(n, d) == n \div d
CeilDiv(n, d) == -((-n) \div d)

\* Math.round(n / d), d > 0: the nearest integer, halves towards +infinity;
\* on an exact half the double may sit on either side of the boundary.
JsRound(n, d) ==
    LET up == (2 * n + d) \div (2 * d)
    IN  IF (2 * n + d) % (2 * d) = 0 THEN {up - 1, up} ELSE {up}

\* Math.round(255 * a / m) for 0 <= a <= m, computed without leaving 32 bits
\* (255 = 15 * 17, each partial product stays below 17 * m).
\* Math.round(n / d) where the double n / d is exact whenever d is a power of
\* two (the operands are small integers): then halves go up, as Math.round
\* defines; otherwise as JsRound.
IsPow2(d) == d \in {1, 2, 4, 8, 16, 32}

RECURSIVE Gcd(_, _)
Gcd(a, b) == IF b = 0 THEN a ELSE Gcd(b, a % b)

JsRoundDyadic(n, d) ==
    IF IsPow2(d) THEN {(2 * n + d) \div (2 * d)} ELSE JsRound(n, d)

JsRound255(a, m) ==
    LET x1 == 15 * a
        i1 == x1 \div m
        r1 == x1 % m
        x2 == 17 * r1
        i2 == x2 \div m
        r2 == x2 % m
        fl == 17 * i1 + i2
    IN  IF 2 * r2 = m THEN {fl, fl + 1}
        ELSE IF 2 * r2 > m THEN {fl + 1} ELSE {fl}


(***************************************************************************)
(* Colour conversion (colorProcessor.ts)                                   *)
(***************************************************************************)
\* Intensity is drawn in steps of 1/IntDen.  Hues are carried in units of
\* 1/HD degree and saturations in units of 1/SD percent, which holds every
\* value applyColorChange can form from integer HSL and such an intensity.
IntDen == 2
HD == IntDen
SD == 10 * IntDen

\* rgbToHsl(r, g, b): the possible results {h: 0..360, s: 0..100, l: 0..100}
rgbToHsl(r, g, b) ==
    LET mx == Max3(r, g, b)
        mn == Min3(r, g, b)
        d  == mx - mn
        ls == JsRound(100 * (mx + mn), 510)
        sden == IF mx + mn > 255 THEN 510 - mx - mn ELSE mx + mn
        hnum == IF mx = r THEN 60 * (g - b) + (IF g < b THEN 360 * d ELSE 0)
                ELSE IF mx = g THEN 60 * (b - r) + 120 * d
                ELSE 60 * (r - g) + 240 * d
    IN  IF mx = mn
        THEN {[h |-> 0, s |-> 0, l |-> l] : l \in ls}
        ELSE {[h |-> h, s |-> s, l |-> l] :
                 h \in JsRound(hnum, d), s \in JsRound(100 * d, sden), l \in ls}

\* hue2rgb(p, q, t) of hslToRgb, times 255 and rounded.  p = pn/Q, q = qn/Q,
\* and t6 is 6*t in units of 1/td (so t = t6 / (6 * td)).
hue2rgb(pn, qn, t6in, td, Q) ==
    LET ta == IF t6in < 0 THEN t6in + 6 * td ELSE t6in
        t6 == IF ta > 6 * td THEN ta - 6 * td ELSE ta
        a  == IF t6 < td THEN pn * td + (qn - pn) * t6
              ELSE IF t6 < 3 * td THEN qn * td
              ELSE IF t6 < 4 * td THEN pn * td + (qn - pn) * (4 * td - t6)
              ELSE pn * td
    IN  JsRound255(a, Q * td)

\* hslToRgb(h, s, l) with h = hn/HD degrees, s = sn/SD percent, l percent:
\* the possible results {r, g, b}
hslToRgb(hn, sn, l) ==
    LET Q  == 100 * 100 * SD
        td == 60 * HD
        qn == IF l < 50 THEN l * (100 * SD + sn)
              ELSE l * 100 * SD + 100 * sn - l * sn
        pn == 2 * l * 100 * SD - qn
    IN  IF sn = 0
        THEN {[r |-> v, g |-> v, b |-> v] : v \in JsRound255(l, 100)}
        ELSE {[r |-> r, g |-> g, b |-> b] :
                 r \in hue2rgb(pn, qn, hn + 120 * HD, td, Q),
                 g \in hue2rgb(pn, qn, hn, td, Q),
                 b \in hue2rgb(pn, qn, hn - 120 * HD, td, Q)}


(***************************************************************************)
(* Round trip  hslToRgb(rgbToHsl(r, g, b))                                 *)
(***************************************************************************)
\* Channel values the inputs are drawn from.
Levels == {0, 1, 3, 64, 127, 128, 200, 228, 253, 254, 255}


InitConv ==
    /\ conv \in {[pc |-> "rgb", r |-> r, g |-> g, b |-> b] :
                    r \in Levels, g \in Levels, b \in Levels}
    /\ ColorIdle /\ PolyIdle /\ SegIdle /\ UiIdle

\* const hsl = rgbToHsl(r, g, b)
ToHsl ==
    /\ conv.pc = "rgb"
    /\ UNCHANGED <<colorVars, polyVars, segVars, uiVars>>
    /\ \E x \in rgbToHsl(conv.r, conv.g, conv.b) :
          conv' = [pc |-> "hsl", r |-> conv.r, g |-> conv.g, b |-> conv.b,
                   hsl |-> x]

\* const back = hslToRgb(hsl.h, hsl.s, hsl.l)
ToRgb ==
    /\ conv.pc = "hsl"
    /\ UNCHANGED <<colorVars, polyVars, segVars, uiVars>>
    /\ \E x \in hslToRgb(conv.hsl.h * HD, conv.hsl.s * SD, conv.hsl.l) :
          conv' = [pc |-> "done", r |-> conv.r, g |-> conv.g, b |-> conv.b,
                   hsl |-> conv.hsl, back |-> x]

NextConv == ToHsl \/ ToRgb


(***************************************************************************)
(* Colour transform engine (colorProcessor.ts)                             *)
(***************************************************************************)
\* A hex colour is the sequence of its characters.
HexVal ==
    [c \in {"0", "1", "2", "3", "4", "5", "6", "7", "8", "9",
            "a", "b", "c", "d", "e", "f", "A", "B", "C", "D", "E", "F"} |->
        CASE c = "0" -> 0 [] c = "1" -> 1 [] c = "2" -> 2 [] c = "3" -> 3
          [] c = "4" -> 4 [] c = "5" -> 5 [] c = "6" -> 6 [] c = "7" -> 7
          [] c = "8" -> 8 [] c = "9" -> 9
          [] c \in {"a", "A"} -> 10 [] c \in {"b", "B"} -> 11
          [] c \in {"c", "C"} -> 12 [] c \in {"d", "D"} -> 13
          [] c \in {"e", "E"} -> 14 [] c \in {"f", "F"} -> 15]

\* A parser that also takes the three-digit shorthand
hexToRgbShorthand(hex) ==
    LET digits == IF Len(hex) > 0 /\ hex[1] = "#"
                  THEN SubSeq(hex, 2, Len(hex)) ELSE hex
    IN  IF Len(digits) = 3 /\ \A i \in 1..3 : digits[i] \in DOMAIN HexVal
        THEN [r |-> 17 * HexVal[digits[1]], g |-> 17 * HexVal[digits[2]],
              b |-> 17 * HexVal[digits[3]]]
        ELSE [r |-> 0, g |-> 0, b |-> 0]

\* hexToRgb(hex): /^#?([a-f\d]{2})([a-f\d]{2})([a-f\d]{2})$/i, else black
hexToRgb(hex) ==
    LET digits == IF Len(hex) > 0 /\ hex[1] = "#"
                  THEN SubSeq(hex, 2, Len(hex)) ELSE hex
        matches == /\ Len(digits) = 6
                   /\ \A i \in 1..6 : digits[i] \in DOMAIN HexVal
        byte(i) == 16 * HexVal[digits[i]] + HexVal[digits[i + 1]]
    IN  IF matches
        THEN [r |-> byte(1), g |-> byte(3), b |-> byte(5)]
        ELSE [r |-> 0, g |-> 0, b |-> 0]

\* calculateEdgeBlending(mask, pixelIndex, width, height): the blend factor
\* as <<numerator, denominator>>.  pixelIndex is 0-based; msk is 1-based.
calculateEdgeBlendingOf25(msk, pixelIndex, width, height) ==
    LET x == pixelIndex % width
        y == pixelIndex \div width
        selectedNeighbors ==
            Cardinality({n \in {<<x + dx, y + dy>> : dx \in -2..2, dy \in -2..2} :
                            /\ n[1] >= 0 /\ n[1] < width
                            /\ n[2] >= 0 /\ n[2] < height
                            /\ msk[n[2] * width + n[1] + 1] > 0})
        g == Gcd(selectedNeighbors, 25)
    IN  IF 2 * selectedNeighbors < 25 THEN <<1, 2>>
        ELSE <<selectedNeighbors \div g, 25 \div g>>

calculateEdgeBlending(msk, pixelIndex, width, height) ==
    LET x == pixelIndex % width
        y == pixelIndex \div width
        window == {<<x + dx, y + dy>> : dx \in -2..2, dy \in -2..2}
        inBounds == {n \in window : /\ n[1] >= 0 /\ n[1] < width
                                    /\ n[2] >= 0 /\ n[2] < height}
        selected == {n \in inBounds : msk[n[2] * width + n[1] + 1] > 0}
        totalNeighbors == Cardinality(inBounds)
        selectedNeighbors == Cardinality(selected)
        g == Gcd(selectedNeighbors, totalNeighbors)
    IN  IF 2 * selectedNeighbors < totalNeighbors
        THEN <<1, 2>>
        ELSE <<selectedNeighbors \div g, totalNeighbors \div g>>

\* Lines 138-169 of applyColorChange: the HSL handed to hslToRgb for one
\* selected pixel, as [hn, sn, l] (hn in 1/HD degree, sn in 1/SD percent).
NewHslOriginal(originalHsl, newHsl, options) ==
    [hn |-> originalHsl.h * HD, sn |-> originalHsl.s * SD, l |-> originalHsl.l]

NewHslTargetLightness(originalHsl, newHsl, options) ==
    [hn |-> newHsl.h * HD, sn |-> newHsl.s * SD, l |-> newHsl.l]

NewHslNoFloor(originalHsl, newHsl, options) ==
    [hn |-> newHsl.h * HD,
     sn |-> IF ~options.preserveTexture THEN newHsl.s * SD
            ELSE IF originalHsl.l < 15 THEN Min2(originalHsl.s, 20) * SD
            ELSE IF originalHsl.l > 85 THEN Min2(originalHsl.s, 30) * SD
            ELSE (4 * originalHsl.s + 6 * newHsl.s) * IntDen,
     l |-> IF options.preserveTexture THEN originalHsl.l ELSE newHsl.l]

NewHsl(originalHsl, newHsl, options) ==
    LET sTex == IF originalHsl.l < 15 THEN Min2(originalHsl.s, 20) * SD
                ELSE IF originalHsl.l > 85 THEN Min2(originalHsl.s, 30) * SD
                ELSE Max2((4 * originalHsl.s + 6 * newHsl.s) * IntDen, 25 * SD)
        newS == IF options.preserveTexture THEN sTex ELSE newHsl.s * SD
        newL == IF options.preserveTexture THEN originalHsl.l ELSE newHsl.l
        newH == newHsl.h * HD
        k    == options.intensity
    IN  IF k < IntDen
        THEN [hn |-> originalHsl.h * HD + (newHsl.h - originalHsl.h) * k,
              sn |-> originalHsl.s * SD
                       + ((newS - originalHsl.s * SD) \div IntDen) * k,
              l  |-> newL]
        ELSE [hn |-> newH, sn |-> newS, l |-> newL]

\* Lines 129-190: the possible values of one selected pixel <<r, g, b, a>>
\* after the transform, bf = <<n, d>> being its blend factor.
RecolorPixel(px, newHsl, options, bf) ==
    UNION {
      UNION {
        {<<r, g, b, px[4]>> :
            r \in JsRoundDyadic(px[1] * bf[2] + (c.r - px[1]) * bf[1], bf[2]),
            g \in JsRoundDyadic(px[2] * bf[2] + (c.g - px[2]) * bf[1], bf[2]),
            b \in JsRoundDyadic(px[3] * bf[2] + (c.b - px[3]) * bf[1], bf[2])} :
        c \in LET t == NewHsl(o, newHsl, options)
              IN  hslToRgb(t.hn, t.sn, t.l)} :
      o \in rgbToHsl(px[1], px[2], px[3])}

\* All sequences s of length n with s[i] \in f[i]
RECURSIVE ChoicesIn(_, _, _)
ChoicesIn(f, lo, hi) ==
    IF lo > hi THEN {<<>>}
    ELSE IF lo = hi THEN {<<x>> : x \in f[lo]}
    ELSE LET mid == (lo + hi) \div 2
         IN  {s \o t : s \in ChoicesIn(f, lo, mid),
                       t \in ChoicesIn(f, mid + 1, hi)}

Choices(f, n) == ChoicesIn(f, 1, n)

\* The pixel loop of applyColorChange (lines 123-191): the possible contents
\* of newImageData.data for the input buffer buf.
SelectedAlways(msk, i) == TRUE
Selected(msk, i) == msk[i] > 0

\* The elements of the finite set S in some order
RECURSIVE SeqOf(_)
SeqOf(S) ==
    IF S = {} THEN <<>>
    ELSE LET e == CHOOSE e \in S : TRUE IN <<e>> \o SeqOf(S \ {e})

\* The arithmetic of one pixel is a function of the pixel's value and its
\* blend factor: selected pixels that agree on both get the same result.
TransformData(buf, msk, options) ==
    LET newRgb == hexToRgb(options.newColor)
        selected == {i \in 1..Len(msk) : Selected(msk, i)}
        key(i) == <<buf.data[i],
                    IF options.blendEdges
                    THEN calculateEdgeBlending(msk, i - 1,
                                               buf.width, buf.height)
                    ELSE <<1, 1>> >>
        keyOf == [i \in selected |-> key(i)]
        keys == SeqOf({keyOf[i] : i \in selected})
        slot == [i \in selected |->
                    CHOOSE n \in 1..Len(keys) : keys[n] = keyOf[i]]
        outcomes(newHsl) ==
            [n \in 1..Len(keys) |->
                RecolorPixel(keys[n][1], newHsl, options, keys[n][2])]
    IN  UNION {{[i \in 1..Len(msk) |->
                    IF i \in selected THEN c[slot[i]] ELSE buf.data[i]] :
                  c \in Choices(outcomes(newHsl), Len(keys))} :
               newHsl \in rgbToHsl(newRgb.r, newRgb.g, newRgb.b)}

\* downsampleMask (lines 277-299): nearest-neighbour point sampling
downsampleMask(msk, originalWidth, originalHeight, newWidth, newHeight) ==
    [k \in 1..(newWidth * newHeight) |->
        LET x == (k - 1) % newWidth
            y == (k - 1) \div newWidth
            sourceX == (x * originalWidth) \div newWidth
            sourceY == (y * originalHeight) \div newHeight
        IN  msk[sourceY * originalWidth + sourceX + 1]]

\* Sum of f over the finite set S
RECURSIVE SumOver(_, _)
SumOver(f, S) ==
    IF S = {} THEN 0
    ELSE LET e == CHOOSE e \in S : TRUE IN f[e] + SumOver(f, S \ {e})

\* downsampleImageData (lines 255-274): the canvas draws the image scaled to
\* newWidth x newHeight.  The resampling kernel is the browser's; the model
\* takes the area average of the source block of each target pixel.
downsampleImageData(buf, newWidth, newHeight) ==
    [width |-> newWidth, height |-> newHeight,
     data |->
        [k \in 1..(newWidth * newHeight) |->
            LET x == (k - 1) % newWidth
                y == (k - 1) \div newWidth
                xs == ((x * buf.width) \div newWidth) ..
                      (CeilDiv((x + 1) * buf.width, newWidth) - 1)
                ys == ((y * buf.height) \div newHeight) ..
                      (CeilDiv((y + 1) * buf.height, newHeight) - 1)
                block == {sy * buf.width + sx + 1 : sx \in xs, sy \in ys}
                n == Cardinality(block)
                avg(c) == (2 * SumOver([i \in block |-> buf.data[i][c]], block)
                             + n) \div (2 * n)
            IN  <<avg(1), avg(2), avg(3), avg(4)>>]]

\* The buffer applyColorChange writes its result into (lines 117-121):
\* new ImageData(new Uint8ClampedArray(originalImageData.data), ...), a
\* fresh buffer holding a copy of the input.
ResultBufferAliased(inId, fresh) == inId
ResultBuffer(inId, fresh) == fresh

\* applyColorChange(originalImageData, mask, options) on the heap hp: the
\* possible outcomes [heap, out], out being the id of result.imageData.
applyColorChange(hp, inId, msk, options, fresh) ==
    LET out == ResultBuffer(inId, fresh)
    IN  {[heap |-> [id \in DOMAIN hp \cup {out} |->
                       IF id = out
                       THEN [width |-> hp[inId].width,
                             height |-> hp[inId].height,
                             data |-> d]
                       ELSE hp[id]],
          out |-> out] : d \in TransformData(hp[inId], msk, options)}

\* Engine state
OrigId == 1
Palette == {<<200, 200, 200, 255>>, <<255, 0, 0, 128>>}
MaskVals == {0, 1}
Targets == {<<"#", "8", "b", "7", "3", "5", "5">>}
PreviewScales == {<<1, 2>>}

OptionSet(targets) ==
    [newColor : targets, preserveTexture : BOOLEAN, blendEdges : BOOLEAN,
     intensity : 0..IntDen]


\* A new buffer is distinct from every buffer still live.  After a call only
\* the original and the buffers of that call stay reachable; ids being mere
\* names, the reachable buffers are renumbered in allocation order.
Rank(id, ids) == Cardinality({j \in ids : j <= id})
Reachable(hp, ids) ==
    LET live == (DOMAIN hp) \cap ids
    IN  [n \in 1..Cardinality(live) |->
            hp[CHOOSE id \in live : Rank(id, live) = n]]
Fresh(used) == CHOOSE id \in 1..(Cardinality(used) + 1) :
                   /\ id \notin used
                   /\ \A j \in 1..(id - 1) : j \in used

\* applyColorChange(original, mask, options) at full resolution
FinalCall(targets) ==
    /\ \E options \in OptionSet(targets) :
       \E r \in applyColorChange(heap, OrigId, mask, options,
                                 Fresh(DOMAIN heap)) :
          LET live == {OrigId, r.out}
          IN  /\ heap' = Reachable(r.heap, live)
              /\ last' = [kind |-> "final", ok |-> TRUE, inId |-> OrigId,
                          outId |-> Rank(r.out, live), options |-> options,
                          asked |-> options, mask |-> mask,
                          input |-> heap[OrigId]]
    /\ UNCHANGED <<mask, convVars, polyVars, segVars, uiVars>>

\* The options createPreview hands to applyColorChange (lines 248-251):
\* { ...options, blendEdges: false }
PreviewOptionsAsGiven(options) == options
PreviewOptions(options) == [options EXCEPT !.blendEdges = FALSE]

\* createPreview(original, mask, options, previewScale) (lines 235-252)
PreviewCall(targets) ==
    /\ \E options \in OptionSet(targets), scale \in PreviewScales :
          LET original == heap[OrigId]
              scaledWidth == (original.width * scale[1]) \div scale[2]
              scaledHeight == (original.height * scale[1]) \div scale[2]
              scaledId == Fresh(DOMAIN heap)
              scaledMask == downsampleMask(mask, original.width,
                               original.height, scaledWidth, scaledHeight)
              hp1 == [id \in DOMAIN heap \cup {scaledId} |->
                         IF id = scaledId
                         THEN downsampleImageData(original, scaledWidth,
                                                  scaledHeight)
                         ELSE heap[id]]
              run == PreviewOptions(options)
          IN  IF scaledWidth = 0 \/ scaledHeight = 0
              THEN \* getImageData of an empty rectangle throws IndexSizeError
                   /\ heap' = Reachable(heap, {OrigId})
                   /\ last' = [kind |-> "preview", ok |-> FALSE,
                               asked |-> options]
              ELSE \E r \in applyColorChange(hp1, scaledId, scaledMask, run,
                                Fresh(DOMAIN heap \cup {scaledId})) :
                   LET live == {OrigId, scaledId, r.out}
                   IN  /\ heap' = Reachable(r.heap, live)
                       /\ last' = [kind |-> "preview", ok |-> TRUE,
                                   inId |-> Rank(scaledId, live),
                                   outId |-> Rank(r.out, live),
                                   options |-> run, asked |-> options,
                                   mask |-> scaledMask,
                                   input |-> hp1[scaledId]]
    /\ UNCHANGED <<mask, convVars, polyVars, segVars, uiVars>>

\* <<width, height>> of the images the engine is run on
Shapes == {<<1, 1>>, <<2, 1>>, <<1, 2>>, <<2, 2>>, <<3, 1>>}

ImagesOver(palette, shapes) ==
    UNION {{[width |-> wh[1], height |-> wh[2], data |-> d] :
               d \in [1..(wh[1] * wh[2]) -> palette]} : wh \in shapes}

InitColor ==
    /\ \E im \in ImagesOver(Palette, Shapes) :
          /\ heap = [id \in {OrigId} |-> im]
          /\ mask \in [1..(im.width * im.height) -> MaskVals]
    /\ last = LastIdle
    /\ conv = ConvIdle /\ PolyIdle /\ SegIdle /\ UiIdle

NextColor == FinalCall(Targets) \/ PreviewCall(Targets)

\* Single-pixel tones: a two-pixel row whose first pixel ranges over many
\* colours beside a fixed grey neighbour, recoloured at full resolution.
ToneLevels == {0, 3, 128, 200, 255}
ToneNeighbour == <<128, 128, 128, 255>>
ToneTargets == {<<"#", "8", "b", "7", "3", "5", "5">>,
                <<"0", "0", "f", "f", "0", "0">>}

InitTone ==
    /\ \E r \in ToneLevels, g \in ToneLevels, b \in ToneLevels :
          heap = <<[width |-> 2, height |-> 1,
                    data |-> <<(<<r, g, b, 255>>), ToneNeighbour>>]>>
    /\ mask \in {<<1, 0>>, <<1, 1>>}
    /\ last = LastIdle
    /\ conv = ConvIdle /\ PolyIdle /\ SegIdle /\ UiIdle

NextTone == FinalCall(ToneTargets)

\* Target strings: every string of up to four characters, and strings of
\* six characters with and without a leading "#" and a trailing character.
HexAlphabet == {"#", "0", "F", "g"}
ShortStrings == UNION {[1..n -> HexAlphabet] : n \in 0..4}
LongStrings ==
    {prefix \o body \o suffix :
        prefix \in {<<>>, <<"#">>},
        body \in [1..6 -> {"F", "g"}] \cup {<<"0", "0", "f", "F", "0", "0">>},
        suffix \in {<<>>, <<"0">>}}
HexStrings == ShortStrings \cup LongStrings
HexPixel == <<200, 50, 50, 255>>

InitHex ==
    /\ conv \in {[pc |-> "hex", hex |-> hex] : hex \in HexStrings}
    /\ heap = <<[width |-> 1, height |-> 1, data |-> <<HexPixel>>]>>
    /\ mask = <<1>>
    /\ last = LastIdle
    /\ PolyIdle /\ SegIdle /\ UiIdle

\* const newRgb = this.hexToRgb(hex)
ParseHex ==
    /\ conv.pc = "hex"
    /\ conv' = [pc |-> "parsed", hex |-> conv.hex, rgb |-> hexToRgb(conv.hex)]
    /\ UNCHANGED <<colorVars, polyVars, segVars, uiVars>>

NextHex == ParseHex \/ FinalCall({conv.hex})

\* Uniform 10x10 images, selected as a whole or in their left half, at full
\* resolution and as a preview.
SceneSize == <<10, 10>>
Gray == <<128, 128, 128, 255>>
FireBrick == <<178, 34, 34, 255>>
SceneColours == {Gray, FireBrick}
Red == <<"#", "F", "F", "0", "0", "0", "0">>
SceneTargets == {Red, <<"#", "2", "2", "8", "B", "2", "2">>}
UniformImage(width, height, colour) ==
    [width |-> width, height |-> height,
     data |-> [k \in 1..(width * height) |-> colour]]
FullMask(width, height) == [k \in 1..(width * height) |-> 1]
LeftHalfMask(width, height) ==
    [k \in 1..(width * height) |->
        IF 2 * ((k - 1) % width) < width THEN 1 ELSE 0]

SparseMask(width, height) ==
    [k \in 1..(width * height) |->
        IF ((k - 1) % width) % 3 = 0 /\ ((k - 1) \div width) % 3 = 0
        THEN 1 ELSE 0]

InitScene ==
    /\ \E colour \in SceneColours :
          heap = <<UniformImage(SceneSize[1], SceneSize[2], colour)>>
    /\ mask \in {FullMask(SceneSize[1], SceneSize[2]),
                 LeftHalfMask(SceneSize[1], SceneSize[2]),
                 SparseMask(SceneSize[1], SceneSize[2])}
    /\ last = LastIdle
    /\ conv = ConvIdle /\ PolyIdle /\ SegIdle /\ UiIdle

NextScene == FinalCall(SceneTargets) \/ PreviewCall(SceneTargets)

(***************************************************************************)
(* polygonToMask (colorProcessor.ts lines 302-343).  A scanline crossing   *)
(* is the exact rational <<n, d>>, d > 0; the coordinates being small      *)
(* integers, Math.floor and Math.ceil of the double agree with the floor   *)
(* and ceiling of the rational.                                            *)
(***************************************************************************)
\* points[k] of the 0-based number[] (undefined past the end never happens:
\* the point lists have even length)
PointAt(points, k) == points[k + 1]

\* (y1 <= y && y < y2) || (y2 <= y && y < y1) for the edge starting at i
EdgeCrossesRow(points, i, y) ==
    LET y1 == PointAt(points, i + 1)
        y2 == PointAt(points, (i + 3) % Len(points))
    IN  (y1 <= y /\ y < y2) \/ (y2 <= y /\ y < y1)

\* x1 + (y - y1) * (x2 - x1) / (y2 - y1)
EdgeIntersection(points, i, y) ==
    LET x1 == PointAt(points, i)
        y1 == PointAt(points, i + 1)
        x2 == PointAt(points, (i + 2) % Len(points))
        y2 == PointAt(points, (i + 3) % Len(points))
        n == x1 * (y2 - y1) + (y - y1) * (x2 - x1)
        d == y2 - y1
    IN  IF d > 0 THEN <<n, d>> ELSE <<-n, -d>>

RECURSIVE Intersections(_, _, _)
Intersections(points, i, y) ==
    IF i >= Len(points) THEN <<>>
    ELSE (IF EdgeCrossesRow(points, i, y)
          THEN <<EdgeIntersection(points, i, y)>> ELSE <<>>)
         \o Intersections(points, i + 2, y)

\* intersections.sort((a, b) => a - b)
RatLeq(a, b) == a[1] * b[2] <= b[1] * a[2]

RECURSIVE InsertSorted(_, _)
InsertSorted(x, s) ==
    IF s = <<>> THEN <<x>>
    ELSE IF RatLeq(x, Head(s)) THEN <<x>> \o s
    ELSE <<Head(s)>> \o InsertSorted(x, Tail(s))

RECURSIVE SortAscending(_)
SortAscending(s) ==
    IF s = <<>> THEN <<>> ELSE InsertSorted(Head(s), SortAscending(Tail(s)))

\* The columns written in one row: between each pair of intersections, from
\* max(0, floor(first)) to min(width - 1, ceil(second)), both included.
SpanEndUnclamped(width, x) == CeilDiv(x[1], x[2])
SpanEndInclusive(width, x) == Min2(width - 1, CeilDiv(x[1], x[2]))

RowFill(sorted, width) ==
    UNION {LET startX == Max2(0, FloorDiv(sorted[2 * k - 1][1],
                                          sorted[2 * k - 1][2]))
               endX == SpanEndInclusive(width, sorted[2 * k])
           IN  startX..endX : k \in 1..(Len(sorted) \div 2)}

\* The returned Uint8Array, entry y * width + x at position y * width + x + 1
polygonToMask(points, width, height, classId) ==
    LET rows == [y \in 0..(height - 1) |->
                    RowFill(SortAscending(Intersections(points, 0, y)), width)]
    IN  [idx \in 1..(width * height) |->
            IF ((idx - 1) % width) \in rows[(idx - 1) \div width]
            THEN classId % 256 ELSE 0]

\* <<width, height>> of the masks asked for, and the class ids
PolySizes == {<<6, 5>>}
PolyClassIds == {1, 3}

\* The rectangle (x0,y0),(x1,y0),(x1,y1),(x0,y1)
Rectangle(x0, y0, x1, y1) == <<x0, y0, x1, y0, x1, y1, x0, y1>>

Rectangles(width, height) ==
    {Rectangle(x0, y0, x1, y1) :
        x0 \in 0..width, x1 \in 0..width, y0 \in 0..height, y1 \in 0..height}

\* Triangles, some with vertices outside the image
TriangleXs == {-2, 1, 4, 8}
TriangleYs == {-1, 2, 6}
Triangles ==
    {<<a[1], a[2], b[1], b[2], c[1], c[2]>> :
        a \in TriangleXs \X TriangleYs, b \in TriangleXs \X TriangleYs,
        c \in TriangleXs \X TriangleYs}

\* Point lists of no, one and two vertices
ShortLists ==
    {<<>>}
    \cup {<<a[1], a[2]>> : a \in TriangleXs \X TriangleYs}
    \cup {<<a[1], a[2], b[1], b[2]>> :
             a \in TriangleXs \X TriangleYs, b \in TriangleXs \X TriangleYs}

InitPoly ==
    /\ \E wh \in PolySizes, classId \in PolyClassIds :
       \E points \in Rectangles(wh[1], wh[2]) \cup Triangles \cup ShortLists :
          poly = [pc |-> "call", points |-> points, width |-> wh[1],
                  height |-> wh[2], classId |-> classId]
    /\ conv = ConvIdle /\ ColorIdle /\ SegIdle /\ UiIdle

PolygonToMask ==
    /\ poly.pc = "call"
    /\ poly' = [pc |-> "done", points |-> poly.points, width |-> poly.width,
                height |-> poly.height, classId |-> poly.classId,
                mask |-> polygonToMask(poly.points, poly.width, poly.height,
                                       poly.classId)]
    /\ UNCHANGED <<convVars, colorVars, segVars, uiVars>>

NextPoly == PolygonToMask

(***************************************************************************)
(* Region classifier (segmentation.ts lines 25-502).  Arrays indexed from  *)
(* 0 in the source are sequences here: entry index is at position          *)
(* index + 1.  Fractions are kept exact: brightness is the numerator of    *)
(* (0.299 r + 0.587 g + 0.114 b) / 255 over 255000, a grey level is three  *)
(* times (r + g + b) / 3, a confidence is <<filled, total>>.  For the      *)
(* sizes and colours modelled the double comparisons of the source agree   *)
(* with the exact ones, but for Math.floor(height * 0.7) at 90, 170, 180.  *)
(***************************************************************************)
SEGMENTATION_CLASSES ==
    [id \in 0..7 |->
        CASE id = 0 -> "background" [] id = 1 -> "walls" [] id = 2 -> "roof"
          [] id = 3 -> "windows"    [] id = 4 -> "doors" [] id = 5 -> "trim"
          [] id = 6 -> "landscape"  [] id = 7 -> "sky"]

\* Math.floor(n * tenths / 10) as the doubles give it, n <= 300
FloorTenths(n, tenths) ==
    IF tenths = 7 /\ n \in {90, 170, 180}
    THEN (n * tenths) \div 10 - 1
    ELSE (n * tenths) \div 10

PixelAt(pixels, index) == pixels[index + 1]

\* The array whose entries are those of f, every entry computed once
ArrayOf(f) == SubSeq(f, 1, Len(f))

\* colorDiff <= threshold, colorDiff the RGB distance to the target colour
WithinThreshold(p, target, threshold) ==
    (p[1] - target[1]) * (p[1] - target[1])
      + (p[2] - target[2]) * (p[2] - target[2])
      + (p[3] - target[3]) * (p[3] - target[3]) <= threshold * threshold

\* The in-bounds ones of the four neighbours pushed at lines 171-174
Neighbours(index, width, height) ==
    LET x == index % width
        y == index \div width
    IN  (IF x + 1 < width THEN {index + 1} ELSE {})
        \cup (IF x > 0 THEN {index - 1} ELSE {})
        \cup (IF y + 1 < height THEN {index + width} ELSE {})
        \cup (IF y > 0 THEN {index - width} ELSE {})

\* The stack loop of floodFillColorRegion: every popped pixel that is in
\* bounds, not visited and within the threshold joins the region and pushes
\* its neighbours, so the region grows until no neighbour qualifies.
RECURSIVE GrowRegion(_, _, _, _, _, _, _, _)
GrowRegion(pixels, visited, region, frontier, width, height, target, threshold) ==
    LET popped == UNION {Neighbours(i, width, height) : i \in frontier}
        joined == {j \in popped \ (region \cup visited) :
                      WithinThreshold(PixelAt(pixels, j), target, threshold)}
    IN  IF joined = {} THEN region
        ELSE GrowRegion(pixels, visited, region \cup joined, joined, width,
                        height, target, threshold)

\* floodFillColorRegion (lines 130-177): the indices it marks visited and
\* labels regionId; visited is the set of indices visited before the call.
floodFillColorRegion(pixels, visited, start, width, height, target, threshold) ==
    IF start \in visited
          \/ ~WithinThreshold(PixelAt(pixels, start), target, threshold)
    THEN {}
    ELSE GrowRegion(pixels, visited, {start}, {start}, width, height, target,
                    threshold)

colorThreshold == 30

\* The raster scan of analyzeColorRegions from the first unvisited index on.
\* visited[index] and regions[index] are set together, and region ids start
\* at 1: an index is visited exactly when its region is not 0.
RECURSIVE ScanRegions(_, _, _, _, _)
ScanRegions(pixels, width, height, regions, regionId) ==
    LET indices == 0..(width * height - 1)
    IN  IF \A i \in indices : regions[i + 1] # 0 THEN regions
        ELSE LET index == CHOOSE i \in indices :
                             /\ regions[i + 1] = 0
                             /\ \A j \in 0..(i - 1) : regions[j + 1] # 0
                 visited == {i \in indices : regions[i + 1] # 0}
                 filled == floodFillColorRegion(pixels, visited, index, width,
                              height, PixelAt(pixels, index), colorThreshold)
             IN  ScanRegions(pixels, width, height,
                    ArrayOf([k \in 1..(width * height) |->
                        IF (k - 1) \in filled THEN regionId ELSE regions[k]]),
                    regionId + 1)

\* analyzeColorRegions (lines 102-128)
analyzeColorRegions(pixels, width, height) ==
    ScanRegions(pixels, width, height, [k \in 1..(width * height) |-> 0], 1)

\* getGray of both gradient helpers, times 3
getGray(pixels, px, py, width) ==
    LET p == PixelAt(pixels, py * width + px) IN p[1] + p[2] + p[3]

\* getGradientX (lines 196-207), times 3
getGradientX(pixels, x, y, width) ==
    - getGray(pixels, x - 1, y - 1, width) + getGray(pixels, x + 1, y - 1, width)
    - 2 * getGray(pixels, x - 1, y, width) + 2 * getGray(pixels, x + 1, y, width)
    - getGray(pixels, x - 1, y + 1, width) + getGray(pixels, x + 1, y + 1, width)

\* getGradientY (lines 209-219), times 3
getGradientY(pixels, x, y, width) ==
    - getGray(pixels, x - 1, y - 1, width) - 2 * getGray(pixels, x, y - 1, width)
    - getGray(pixels, x + 1, y - 1, width) + getGray(pixels, x - 1, y + 1, width)
    + 2 * getGray(pixels, x, y + 1, width) + getGray(pixels, x + 1, y + 1, width)

\* An edge map without any edge
detectEdgesNone(pixels, width, height) ==
    ArrayOf([k \in 1..(width * height) |-> 0])

\* detectEdges (lines 179-194): magnitude > 50 on the interior pixels
detectEdges(pixels, width, height) ==
    ArrayOf([k \in 1..(width * height) |->
                LET x == (k - 1) % width
                    y == (k - 1) \div width
                IN  IF 1 <= x /\ x < width - 1 /\ 1 <= y /\ y < height - 1
                    THEN LET gx == getGradientX(pixels, x, y, width)
                             gy == getGradientY(pixels, x, y, width)
                         IN  IF gx * gx + gy * gy > 9 * 50 * 50 THEN 1 ELSE 0
                    ELSE 0])

\* analyzeBrightness (lines 221-235), times 255000
analyzeBrightness(pixels, width, height) ==
    ArrayOf([k \in 1..(width * height) |->
                299 * pixels[k][1] + 587 * pixels[k][2] + 114 * pixels[k][3]])

\* brightness > tenths / 10 and brightness < tenths / 10
Above(brightness, tenths) == brightness * 10 > tenths * 255000
Below(brightness, tenths) == brightness * 10 < tenths * 255000

\* Math.floor(height * 0.6), the rows detectSky scans (line 288), and the
\* band cut at half the height instead
SkyBandHalf(height) == FloorTenths(height, 5)
SkyBand(height) == FloorTenths(height, 6)

\* detectSky (lines 284-309)
detectSky(pixels, brightness, width, height) ==
    ArrayOf([k \in 1..(width * height) |->
                LET y == (k - 1) \div width
                    r == pixels[k][1]
                    g == pixels[k][2]
                    b == pixels[k][3]
                    isBluish == b > r /\ b > g
                    isBright == Above(brightness[k], 4)
                    isUpperPortion == 10 * y < 4 * height
                IN  IF /\ y < SkyBand(height)
                       /\ \/ isBluish /\ isBright
                          \/ isUpperPortion /\ Above(brightness[k], 7)
                    THEN 7 ELSE 0])

\* size > width * height * 0.05
IsLargeRegion(size, width, height) == 20 * size > width * height

\* detectWalls (lines 311-343)
detectWalls(pixels, colorRegions, edges, width, height) ==
    LET regionIds == {colorRegions[k] : k \in 1..Len(colorRegions)}
        regionSizes ==
            [id \in regionIds |->
                Cardinality({k \in 1..Len(colorRegions) : colorRegions[k] = id})]
        largeRegions ==
            {id \in regionIds : IsLargeRegion(regionSizes[id], width, height)}
    IN  ArrayOf([k \in 1..(width * height) |->
                    LET y == (k - 1) \div width
                    IN  IF /\ FloorTenths(height, 2) <= y
                           /\ y < FloorTenths(height, 8)
                           /\ colorRegions[k] \in largeRegions
                           /\ edges[k] = 0
                        THEN 1 ELSE 0])

\* detectRoof (lines 345-370)
detectRoof(pixels, colorRegions, brightness, width, height) ==
    ArrayOf([k \in 1..(width * height) |->
                LET y == (k - 1) \div width
                    r == pixels[k][1]
                    g == pixels[k][2]
                    b == pixels[k][3]
                    isDark == Below(brightness[k], 6)
                    isUpperPortion == 10 * y < 4 * height
                    isRoofColor == \/ r > b /\ g > b
                                   \/ Abs(r - g) < 20 /\ Abs(g - b) < 20
                IN  IF /\ y < FloorTenths(height, 5)
                       /\ isDark /\ isUpperPortion /\ isRoofColor
                    THEN 2 ELSE 0])

\* hasStrongEdgesNearby (lines 442-454)
hasStrongEdgesNearby(edges, x, y, width, height, radius) ==
    LET near == {<<nx, ny>> \in ((x - radius)..(x + radius))
                                   \X ((y - radius)..(y + radius)) :
                    /\ nx >= 0 /\ nx < width /\ ny >= 0 /\ ny < height
                    /\ edges[ny * width + nx + 1] = 1}
    IN  Cardinality(near) > radius

\* hasVerticalEdgesNearby (lines 456-465)
hasVerticalEdgesNearby(edges, x, y, width, height) ==
    \E dy \in -3..3 :
        /\ y + dy >= 0 /\ y + dy < height
        /\ edges[(y + dy) * width + x + 1] = 1

\* isReflectiveArea (lines 467-480)
isReflectiveArea(pixels, x, y, width, height) ==
    LET p == PixelAt(pixels, y * width + x)
        r == p[1]
        g == p[2]
        b == p[3]
        isBlueish == 10 * b > 11 * r /\ 10 * b > 11 * g
        isNeutral == Abs(r - g) < 30 /\ Abs(g - b) < 30 /\ Abs(r - b) < 30
    IN  isBlueish \/ isNeutral

\* hasDoorColor (lines 482-496)
hasDoorColor(pixels, x, y, width) ==
    LET p == PixelAt(pixels, y * width + x)
        r == p[1]
        g == p[2]
        b == p[3]
        isBrown == r > g /\ r > b /\ g > b
        isWhite == r > 200 /\ g > 200 /\ b > 200
        isDark == r < 100 /\ g < 100 /\ b < 100
    IN  isBrown \/ isWhite \/ isDark

\* detectWindows (lines 372-391)
detectWindows(pixels, edges, brightness, width, height) ==
    ArrayOf([k \in 1..(width * height) |->
                LET x == (k - 1) % width
                    y == (k - 1) \div width
                IN  IF /\ FloorTenths(height, 2) <= y
                       /\ y < FloorTenths(height, 8)
                       /\ Above(brightness[k], 6)
                       /\ isReflectiveArea(pixels, x, y, width, height)
                       /\ hasStrongEdgesNearby(edges, x, y, width, height, 5)
                    THEN 3 ELSE 0])

\* detectDoors (lines 393-412)
detectDoors(pixels, edges, brightness, width, height) ==
    ArrayOf([k \in 1..(width * height) |->
                LET x == (k - 1) % width
                    y == (k - 1) \div width
                    isDoorArea == 2 * y > height
                IN  IF /\ FloorTenths(height, 4) <= y
                       /\ y < FloorTenths(height, 9)
                       /\ FloorTenths(width, 2) <= x
                       /\ x < FloorTenths(width, 8)
                       /\ isDoorArea
                       /\ hasDoorColor(pixels, x, y, width)
                       /\ hasVerticalEdgesNearby(edges, x, y, width, height)
                    THEN 4 ELSE 0])

\* y > height * 0.75 (line 430), and the same with `>=`
IsLowerPortionInclusive(y, height) == 4 * y >= 3 * height
IsLowerPortion(y, height) == 4 * y > 3 * height

\* detectLandscape (lines 414-439)
detectLandscape(pixels, colorRegions, brightness, width, height) ==
    ArrayOf([k \in 1..(width * height) |->
                LET y == (k - 1) \div width
                    r == pixels[k][1]
                    g == pixels[k][2]
                    b == pixels[k][3]
                    isGreenish == g > r /\ g > b
                    isBrownish == r > b /\ 5 * g > 6 * b
                IN  IF /\ FloorTenths(height, 7) <= y
                       /\ (isGreenish \/ isBrownish)
                       /\ IsLowerPortion(y, height)
                    THEN 6 ELSE 0])

\* calculateConfidence (lines 498-502): filledPixels / totalPixels, and the
\* same counting the pixels left 0
calculateConfidenceOfBackground(msk) ==
    <<Cardinality({k \in 1..Len(msk) : msk[k] = 0}), Len(msk)>>
calculateConfidence(msk) ==
    <<Cardinality({k \in 1..Len(msk) : msk[k] > 0}), Len(msk)>>

\* region.confidence > 0.1 (line 267), and the same with `>=`
AtLeastTenth(confidence) == 10 * confidence[1] >= confidence[2]
AboveTenth(confidence) == 10 * confidence[1] > confidence[2]

HasReasonableConfidence(region) == AboveTenth(region.confidence)

\* The detectedRegions array of createIntelligentSegmentation (lines 248-263)
DetectedRegions(pixels, colorRegions, edgeMap, brightnessMask, width, height) ==
    LET region(msk, classId, name) ==
            [mask |-> msk, classId |-> classId, name |-> name,
             confidence |-> calculateConfidence(msk)]
    IN  << region(detectSky(pixels, brightnessMask, width, height), 7, "sky"),
           region(detectRoof(pixels, colorRegions, brightnessMask, width,
                             height), 2, "roof"),
           region(detectWalls(pixels, colorRegions, edgeMap, width, height),
                  1, "walls"),
           region(detectWindows(pixels, edgeMap, brightnessMask, width,
                                height), 3, "windows"),
           region(detectDoors(pixels, edgeMap, brightnessMask, width, height),
                  4, "doors"),
           region(detectLandscape(pixels, colorRegions, brightnessMask, width,
                                  height), 6, "landscape") >>

\* The masks createIntelligentSegmentation returns (lines 265-281)
createIntelligentSegmentation(detectedRegions, width, height) ==
    LET kept == SelectSeq(detectedRegions, HasReasonableConfidence)
    IN  [n \in 1..Len(kept) |->
            [data |-> kept[n].mask, width |-> width, height |-> height,
             classId |-> kept[n].classId,
             className |-> SEGMENTATION_CLASSES[kept[n].classId],
             confidence |-> kept[n].confidence]]

\* Colours of the images classified
SkyBlue == <<135, 206, 235, 255>>
ForestGreen == <<34, 139, 34, 255>>
DarkGray == <<60, 60, 60, 255>>
White == <<255, 255, 255, 255>>
Brown == <<139, 69, 19, 255>>
SegPalette == {SkyBlue, ForestGreen, DarkGray, White, Brown}

\* An image is three bands of colours c[1], c[2], c[3], cut before a and
\* before b, laid out as rows or as columns of a width x height picture.
BandedImage(width, height, layout, c, a, b) ==
    [width |-> width, height |-> height, layout |-> layout, colours |-> c,
     a |-> a, b |-> b]

\* ctx.getImageData(0, 0, canvas.width, canvas.height).data (lines 77-79),
\* one <<r, g, b, a>> per pixel
getImageData(image) ==
    ArrayOf([k \in 1..(image.width * image.height) |->
                LET at == IF image.layout = "rows"
                          THEN (k - 1) \div image.width
                          ELSE (k - 1) % image.width
                IN  IF at < image.a THEN image.colours[1]
                    ELSE IF at < image.b THEN image.colours[2]
                    ELSE image.colours[3]])

\* ctx.getImageData(0, 0, sw, sh) (line 78) throws IndexSizeError when sw or
\* sh is zero; analyzeImageContent and segmentImage pass the error on
\* (lines 62-65).
getImageDataNeverThrows(image) == FALSE
getImageDataThrows(image) == image.width = 0 \/ image.height = 0

\* analyzeImageContent (lines 68-100)
analyzeImageContent(image) ==
    LET pixels == getImageData(image)
        colorRegions == analyzeColorRegions(pixels, image.width, image.height)
        edgeMap == detectEdges(pixels, image.width, image.height)
        brightnessMask == analyzeBrightness(pixels, image.width, image.height)
        detectedRegions == DetectedRegions(pixels, colorRegions, edgeMap,
                              brightnessMask, image.width, image.height)
    IN  [detectedRegions |-> detectedRegions,
         colorRegions |-> colorRegions,
         edgeMap |-> edgeMap,
         masks |-> createIntelligentSegmentation(detectedRegions, image.width,
                                                 image.height)]

\* The small images: <<width, height>>, and the cuts <<a, b>> of the bands
SegSizes == {<<5, 10>>}
RowCuts == {<<1, 4>>, <<1, 9>>, <<4, 8>>, <<4, 9>>, <<6, 8>>}
ColumnCuts == {<<1, 4>>, <<2, 4>>}

BandedImages ==
    UNION {{BandedImage(wh[1], wh[2], "rows", c, ab[1], ab[2]) :
               c \in SegPalette \X SegPalette \X SegPalette,
               ab \in RowCuts}
           \cup {BandedImage(wh[1], wh[2], "columns", c, ab[1], ab[2]) :
                    c \in SegPalette \X SegPalette \X SegPalette,
                    ab \in ColumnCuts} : wh \in SegSizes}

\* 20x5 images whose first column is one colour region: a twentieth of
\* the pixels
TwentiethImages ==
    {BandedImage(20, 5, "columns", c, 1, 4) :
        c \in {<<White, Brown, Brown>>, <<DarkGray, SkyBlue, White>>}}

\* The 100x100 image, #87CEEB in rows 0-59 and #228B22 in rows 60-99
ScenarioImage ==
    BandedImage(100, 100, "rows", <<SkyBlue, ForestGreen, ForestGreen>>,
                60, 100)


\* Buffers without area
ZeroAreaImages ==
    {BandedImage(wh[1], wh[2], "rows", <<SkyBlue, SkyBlue, SkyBlue>>, 0, 0) :
        wh \in {<<0, 0>>, <<0, 10>>, <<5, 0>>}}

InitClassify ==
    /\ img \in BandedImages \cup {ScenarioImage} \cup ZeroAreaImages
                \cup TwentiethImages
    /\ seg = [pc |-> "ready", isModelLoaded |-> FALSE, masks |-> <<>>,
              detectedRegions |-> <<>>, colorRegions |-> <<>>,
              edgeMap |-> <<>>]
    /\ conv = ConvIdle /\ ColorIdle /\ PolyIdle /\ UiIdle

\* segmentImage (lines 52-55): initialize first unless the model is loaded
segmentImage ==
    /\ seg.pc \in {"ready", "done", "failed"}
    /\ seg' = [pc |-> IF seg.isModelLoaded THEN "analyze" ELSE "initialize",
               isModelLoaded |-> seg.isModelLoaded, masks |-> <<>>,
               detectedRegions |-> <<>>, colorRegions |-> <<>>,
               edgeMap |-> <<>>]
    /\ UNCHANGED <<img, convVars, colorVars, polyVars, uiVars>>

\* initialize (lines 39-50)
initialize ==
    /\ seg.pc = "initialize"
    /\ seg' = [seg EXCEPT !.pc = "analyze", !.isModelLoaded = TRUE]
    /\ UNCHANGED <<img, convVars, colorVars, polyVars, uiVars>>

\* segmentImage (lines 57-61): the analysis and its result
analyze ==
    /\ seg.pc = "analyze"
    /\ IF getImageDataThrows(img)
       THEN seg' = [seg EXCEPT !.pc = "failed"]
       ELSE \E result \in {analyzeImageContent(img)} :
               seg' = [pc |-> "done", isModelLoaded |-> seg.isModelLoaded,
                       masks |-> result.masks,
                       detectedRegions |-> result.detectedRegions,
                       colorRegions |-> result.colorRegions,
                       edgeMap |-> result.edgeMap]
    /\ UNCHANGED <<img, convVars, colorVars, polyVars, uiVars>>

NextClassify == segmentImage \/ initialize \/ analyze

(***************************************************************************)
(* analyzeColorRegions and floodFillColorRegion step by step               *)
(* (segmentation.ts lines 102-177): the raster scan, and the stack loop of *)
(* one fill with one pop per step.  img holds the width, the height and    *)
(* the pixels; seg holds the locals of both functions.                     *)
(***************************************************************************)
\* The images: every 3x2 picture over three colours that differ in the red
\* channel only, by exactly the threshold from one to the next
FillWidth == 3
FillHeight == 2
FillColours == {<<0, 0, 0, 255>>, <<30, 0, 0, 255>>, <<60, 0, 0, 255>>}
FillImages ==
    {[width |-> FillWidth, height |-> FillHeight, pixels |-> ArrayOf(f)] :
        f \in [1..(FillWidth * FillHeight) -> FillColours]}

\* stack.push of the four neighbours (lines 171-174), the last one on top
PushedWithDiagonal(x, y) ==
    <<<<x + 1, y>>, <<x - 1, y>>, <<x, y + 1>>, <<x, y - 1>>,
      <<x + 1, y + 1>>>>
Pushed(x, y) == <<<<x + 1, y>>, <<x - 1, y>>, <<x, y + 1>>, <<x, y - 1>>>>

\* regions and visited filled with 0 and false, regionId = 1 (lines 103-105)
InitFill ==
    /\ img \in FillImages
    /\ seg = [pc |-> "scan", index |-> 0,
              regions |-> [k \in 1..(FillWidth * FillHeight) |-> 0],
              visited |-> [k \in 1..(FillWidth * FillHeight) |-> FALSE],
              marks |-> [k \in 1..(FillWidth * FillHeight) |-> 0],
              regionId |-> 1, stack |-> <<>>, target |-> <<0, 0, 0, 0>>,
              seeds |-> <<>>]
    /\ conv = ConvIdle /\ ColorIdle /\ PolyIdle /\ UiIdle

\* One iteration of the scan (lines 110-114): an unvisited pixel starts a
\* fill with its own colour as target (lines 115-121, 144)
ScanPixel ==
    /\ seg.pc = "scan"
    /\ seg.index < img.width * img.height
    /\ seg' = IF seg.visited[seg.index + 1]
              THEN [seg EXCEPT !.index = @ + 1]
              ELSE [seg EXCEPT
                      !.pc = "fill",
                      !.target = PixelAt(img.pixels, seg.index),
                      !.stack = <<<<seg.index % img.width,
                                    seg.index \div img.width>>>>,
                      !.seeds = Append(@, seg.index)]
    /\ UNCHANGED <<img, convVars, colorVars, polyVars, uiVars>>

\* One iteration of the stack loop (lines 146-176)
PopPixel ==
    /\ seg.pc = "fill"
    /\ seg.stack # <<>>
    /\ LET top == seg.stack[Len(seg.stack)]
           x == top[1]
           y == top[2]
           rest == SubSeq(seg.stack, 1, Len(seg.stack) - 1)
           index == y * img.width + x
       IN  seg' =
             IF x < 0 \/ x >= img.width \/ y < 0 \/ y >= img.height
             THEN [seg EXCEPT !.stack = rest]
             ELSE IF seg.visited[index + 1]
             THEN [seg EXCEPT !.stack = rest]
             ELSE IF WithinThreshold(PixelAt(img.pixels, index), seg.target,
                                     colorThreshold)
             THEN [seg EXCEPT !.visited[index + 1] = TRUE,
                              !.marks[index + 1] = @ + 1,
                              !.regions[index + 1] = seg.regionId,
                              !.stack = rest \o Pushed(x, y)]
             ELSE [seg EXCEPT !.stack = rest]
    /\ UNCHANGED <<img, convVars, colorVars, polyVars, uiVars>>

\* The stack is empty: floodFillColorRegion returns, regionId++ (line 122)
\* and the scan goes on with the next pixel
FillReturns ==
    /\ seg.pc = "fill"
    /\ seg.stack = <<>>
    /\ seg' = [seg EXCEPT !.pc = "scan", !.regionId = @ + 1,
                          !.index = @ + 1]
    /\ UNCHANGED <<img, convVars, colorVars, polyVars, uiVars>>

\* return regions (line 127)
ScanReturns ==
    /\ seg.pc = "scan"
    /\ seg.index = img.width * img.height
    /\ seg' = [seg EXCEPT !.pc = "returned"]
    /\ UNCHANGED <<img, convVars, colorVars, polyVars, uiVars>>

NextFill == ScanPixel \/ PopPixel \/ FillReturns \/ ScanReturns


(***************************************************************************)
(* The editor (components/CanvasEditor.tsx, the CanvasEditor with preview) *)
(*                                                                         *)
(* The component runs on the browser's event loop: a task (a timer         *)
(* callback, a click, an image's onload, a render with new props) runs to  *)
(* its end, and the continuation of an `await` on a settled promise is a   *)
(* microtask, run before the next task.  colorProcessor's createPreview    *)
(* and applyColorChange are async functions without an await of their own, *)
(* so their promise is settled when the call returns.  Loading an image    *)
(* from a data URL is asynchronous: its onload is a later task, and the    *)
(* onloads of two images are not ordered.                                  *)
(***************************************************************************)
\* Props: 0 stands for no colour (selectedColor undefined) and for no mask
\* (selectedMasks = []).
EdColours == 0..1
EdIntensities == 1..2
EdMaskSets == 0..1

\* setTimeout(..., 100) of the preview effect (line 348); time advances in
\* steps of half of it and is not followed beyond MaxQuiet.
DebounceMs == 100
TickMs == DebounceMs \div 2
MaxQuiet == 2 * DebounceMs
TimerDelayHalf == TickMs
TimerDelay == DebounceMs

\* How many prop changes, clicks and parent re-renders are followed
MaxChanges == 2
MaxClicks == 1
MaxRerenders == 1

\* The image the rectangle test button puts on display (no transform)
RectangleImage == 0 - 1

NoPreview == [id |-> 0, at |-> 0, values |-> <<0, 0, 0>>]

NoTimer ==
    [active |-> FALSE, remaining |-> 0, values |-> <<0, 0, 0>>,
     originalImageData |-> FALSE]

EdValues(e) == <<e.selectedColor, e.colorIntensity, e.selectedMasks>>

\* The preview effect (lines 341-351) runs when selectedColor,
\* colorIntensity, selectedMasks or applyColorChange changed: the cleanup
\* clears the pending timer and a new one is set, whose callback closes
\* over the values of this render.
Arm(e) ==
    [e EXCEPT !.timer = [active |-> TRUE, remaining |-> TimerDelay,
                         values |-> EdValues(e),
                         originalImageData |-> e.originalImageData]]

\* A task starts only when no continuation is waiting
TaskMayRun == ed.micro = <<>>

\* setIsProcessing(true) (line 236)
IsProcessingNotSet == FALSE
IsProcessingWhileRunning == TRUE

\* combinedMask.length === 0 (line 241): createCombinedMask returns an empty
\* array for an empty mask list or missing image data (lines 166-169), and
\* otherwise one of width * height entries
CombinedMaskEmpty(cl) == ~cl.originalImageData \/ cl.values[3] = 0

\* finally { setIsProcessing(false) } (lines 335-337) and
\* .finally(() => setIsProcessing(false)) (line 583), after a transform that
\* returned (ok) or threw
FinallyOnSuccessOnly(e, ok) ==
    IF ok THEN [e EXCEPT !.isProcessing = FALSE] ELSE e
FinallySetIsProcessing(e, ok) == [e EXCEPT !.isProcessing = FALSE]

\* applyColorChange(usePreview) of the editor up to its await (lines
\* 221-266), run with the values cl its closure holds; ok tells whether the
\* transform returned or threw.
EditorApplyColorChange(e, kind, cl, ok) ==
    IF ~cl.originalImageData \/ cl.values[1] = 0 \/ cl.values[3] = 0
    THEN e
    ELSE IF CombinedMaskEmpty(cl)
    THEN [e EXCEPT !.isProcessing = FALSE]
    ELSE [e EXCEPT
            !.isProcessing = IsProcessingWhileRunning,
            !.issued = @ + 1,
            !.preview = IF kind = "preview"
                        THEN [id |-> e.issued + 1, at |-> e.sinceChange,
                              values |-> cl.values]
                        ELSE @,
            !.micro = Append(@, [kind |-> kind, id |-> e.issued + 1,
                                 ok |-> ok]),
            !.started = IF kind = "preview" THEN @ + 1 ELSE @]

\* setPreviewImageData(v) and the effect on previewImageData (lines
\* 389-403): a new image starts loading, or the shown preview is dropped.
SetPreviewImageData(e, v) ==
    IF v = 0
    THEN [e EXCEPT !.previewImageData = 0,
                   !.previewImage = IF e.previewImageData = 0 THEN @ ELSE 0]
    ELSE [e EXCEPT !.previewImageData = v,
                   !.loads = @ \cup {[kind |-> "preview", id |-> v]}]

\* The controls are rendered (line 492) and the buttons enabled (line 506)
ControlsVisible(e) ==
    e.selectedMasks # 0 /\ e.selectedColor # 0 /\ e.finalImage = 0
ApplyDisabled(e) == e.isProcessing

InitEditor ==
    /\ \E c \in EdColours, i \in EdIntensities, m \in EdMaskSets :
          ed = Arm([pc |-> "mounted",
                    selectedColor |-> c, colorIntensity |-> i,
                    selectedMasks |-> m,
                    originalImageData |-> FALSE, isProcessing |-> FALSE,
                    previewImageData |-> 0, previewImage |-> 0,
                    finalImage |-> 0,
                    timer |-> NoTimer, micro |-> <<>>, loads |-> {},
                    issued |-> 0, preview |-> NoPreview,
                    sinceChange |-> 0, burst |-> FALSE, started |-> 0,
                    rearmed |-> FALSE,
                    changes |-> 0, clicks |-> 0, rerenders |-> 0])
    /\ app = AppIdleState /\ view = ViewIdleState
    /\ conv = ConvIdle /\ ColorIdle /\ PolyIdle /\ SegIdle

\* The parent renders the editor with a new colour, intensity or mask list
ChangeProps ==
    /\ TaskMayRun
    /\ ed.changes < MaxChanges
    /\ \E c \in EdColours, i \in EdIntensities, m \in EdMaskSets :
          /\ <<c, i, m>> # EdValues(ed)
          /\ ed' = Arm([ed EXCEPT !.selectedColor = c, !.colorIntensity = i,
                                  !.selectedMasks = m,
                                  !.burst = ed.sinceChange < DebounceMs,
                                  !.sinceChange = 0, !.started = 0,
                                  !.rearmed = FALSE,
                                  !.changes = @ + 1])
    /\ UNCHANGED <<app, view, convVars, colorVars, polyVars, segVars>>

\* img.onload of the original image (lines 137-161): originalImageData is
\* set, applyColorChange is a new function (line 338) and the effect re-runs
ImageLoaded ==
    /\ TaskMayRun
    /\ ~ed.originalImageData
    /\ ed' = Arm([ed EXCEPT !.originalImageData = TRUE, !.rearmed = TRUE])
    /\ UNCHANGED <<app, view, convVars, colorVars, polyVars, segVars>>

\* The parent renders the editor with a new onColorChange callback and the
\* same values: applyColorChange is a new function (line 338) and the
\* effect re-runs
Rerender ==
    /\ TaskMayRun
    /\ ed.rerenders < MaxRerenders
    /\ ed' = Arm([ed EXCEPT !.rearmed = TRUE, !.rerenders = @ + 1])
    /\ UNCHANGED <<app, view, convVars, colorVars, polyVars, segVars>>

\* The debounce timer's callback (lines 342-348)
TimerFire ==
    /\ TaskMayRun
    /\ ed.timer.active /\ ed.timer.remaining = 0
    /\ \E ok \in BOOLEAN :
          LET cl == ed.timer
              e1 == [ed EXCEPT !.timer = NoTimer]
          IN  ed' = IF cl.values[1] # 0 /\ cl.values[3] # 0
                    THEN EditorApplyColorChange(e1, "preview", cl, ok)
                    ELSE SetPreviewImageData(e1, 0)
    /\ UNCHANGED <<app, view, convVars, colorVars, polyVars, segVars>>

\* applyColorChange after its await (lines 268-336), and the then/finally
\* of the test button (lines 527-583)
Resume ==
    /\ ed.micro # <<>>
    /\ LET h == Head(ed.micro)
           e1 == FinallySetIsProcessing([ed EXCEPT !.micro = Tail(@)], h.ok)
       IN  ed' = IF ~h.ok THEN e1
                 ELSE IF h.kind = "preview" THEN SetPreviewImageData(e1, h.id)
                 ELSE [e1 EXCEPT !.loads = @ \cup {[kind |-> "final",
                                                    id |-> h.id]}]
    /\ UNCHANGED <<app, view, convVars, colorVars, polyVars, segVars>>

\* Apply Color Change (lines 504-510): applyFinalColorChange (lines 354-356)
ClickApply ==
    /\ TaskMayRun
    /\ ed.clicks < MaxClicks
    /\ ControlsVisible(ed) /\ ~ApplyDisabled(ed)
    /\ \E ok \in BOOLEAN :
          ed' = EditorApplyColorChange([ed EXCEPT !.clicks = @ + 1], "final",
                   [values |-> EdValues(ed),
                    originalImageData |-> ed.originalImageData], ok)
    /\ UNCHANGED <<app, view, convVars, colorVars, polyVars, segVars>>

\* Test with Bright Red (lines 512-585): a full-resolution transform to
\* #FF0000 (written 3 here) at intensity 1
ClickTest ==
    /\ TaskMayRun
    /\ ed.clicks < MaxClicks
    /\ ControlsVisible(ed) /\ ~ApplyDisabled(ed)
    /\ \E ok \in BOOLEAN :
          ed' = EditorApplyColorChange([ed EXCEPT !.clicks = @ + 1], "test",
                   [values |-> <<3, 1, ed.selectedMasks>>,
                    originalImageData |-> ed.originalImageData], ok)
    /\ UNCHANGED <<app, view, convVars, colorVars, polyVars, segVars>>

\* Simple Red Rectangle Test (lines 591-620): no transform, an image only
ClickRectangle ==
    /\ TaskMayRun
    /\ ed.clicks < MaxClicks
    /\ ControlsVisible(ed) /\ ~ApplyDisabled(ed)
    /\ ed' = IF ed.originalImageData
             THEN [ed EXCEPT !.clicks = @ + 1,
                             !.loads = @ \cup {[kind |-> "final",
                                                id |-> RectangleImage]}]
             ELSE [ed EXCEPT !.clicks = @ + 1]
    /\ UNCHANGED <<app, view, convVars, colorVars, polyVars, segVars>>

\* onload of a preview image (line 399) or of a final image (lines 305-323,
\* 558-576, 613-617)
ImageOnload ==
    /\ TaskMayRun
    /\ \E l \in ed.loads :
          ed' = IF l.kind = "preview"
                THEN [ed EXCEPT !.loads = @ \ {l}, !.previewImage = l.id]
                ELSE [ed EXCEPT !.loads = @ \ {l}, !.finalImage = l.id]
    /\ UNCHANGED <<app, view, convVars, colorVars, polyVars, segVars>>

\* Reset to Original (lines 637-642)
ClickResetToOriginal ==
    /\ TaskMayRun
    /\ ed.finalImage # 0
    /\ ed' = SetPreviewImageData([ed EXCEPT !.finalImage = 0], 0)
    /\ UNCHANGED <<app, view, convVars, colorVars, polyVars, segVars>>

\* TickMs pass; a timer that is due fires before more time passes
Tick ==
    /\ TaskMayRun
    /\ ~(ed.timer.active /\ ed.timer.remaining = 0)
    /\ ed.sinceChange < MaxQuiet \/ ed.timer.active
    /\ ed' = [ed EXCEPT
                !.sinceChange = Min2(@ + TickMs, MaxQuiet),
                !.timer.remaining = IF ed.timer.active
                                    THEN Max2(@ - TickMs, 0) ELSE @]
    /\ UNCHANGED <<app, view, convVars, colorVars, polyVars, segVars>>

NextEditor ==
    \/ ChangeProps \/ ImageLoaded \/ Rerender \/ TimerFire \/ Resume
    \/ ClickApply \/ ClickTest \/ ClickRectangle \/ ImageOnload
    \/ ClickResetToOriginal \/ Tick

(***************************************************************************)
(* The application (App.tsx, hooks/useSegmentation.ts, store/index.ts)     *)
(*                                                                         *)
(* A segmentation call made before the model is loaded waits for the timer *)
(* of SegmentationService.initialize and settles in a later task; once the *)
(* model is loaded the call has no wait and settles within the click.      *)
(***************************************************************************)
\* Uploaded images by their dimensions; the second has no area
AppImages == {[width |-> 2, height |-> 2], [width |-> 0, height |-> 2]}
AreaIds == 1..2

\* How many uploads, segmentation calls and resets are followed
MaxUploads == 2
MaxStarts == 3
MaxResets == 2

NoCall == [active |-> FALSE, upload |-> 0, width |-> 0, height |-> 0]

\* The catch and finally of useSegmentation.segmentImage (lines 18-25)
HookFailsSilently(a) ==
    [a EXCEPT !.isSegmenting = FALSE, !.failures = @ + 1]
HookFails(a) ==
    [a EXCEPT !.error = "Segmentation failed", !.isSegmenting = FALSE,
              !.failures = @ + 1]

\* The call settles: the hook's continuation (lines 14-25), then that of
\* handleStartSegmentation (lines 43-48).  A result is written as the
\* number of the upload it was computed for.
Settled(a, image) ==
    IF getImageDataThrows(image)
    THEN HookFails(a)
    ELSE [a EXCEPT !.segmentationResult = image.upload,
                   !.isSegmenting = FALSE,
                   !.segmentation = image.upload,
                   !.currentStep = "color"]

InitApp ==
    /\ app = [pc |-> "running",
              uploadedImage |-> NoCall, currentStep |-> "upload",
              segmentation |-> 0, selectedAreas |-> {},
              isSegmenting |-> FALSE, error |-> "",
              segmentationResult |-> 0,
              isModelLoaded |-> FALSE, call |-> NoCall, uploading |-> {},
              sinceReset |-> "none", failures |-> 0,
              uploads |-> 0, starts |-> 0, resets |-> 0]
    /\ ed = EdIdleState /\ view = ViewIdleState
    /\ conv = ConvIdle /\ ColorIdle /\ PolyIdle /\ SegIdle

\* handleImageUpload (lines 27-37) up to its await: processImageFile reads
\* the chosen file
UploadStarts ==
    /\ app.currentStep = "upload"
    /\ app.uploads < MaxUploads
    /\ \E image \in AppImages :
          app' = [app EXCEPT
                    !.uploads = @ + 1,
                    !.uploading = @ \cup {[active |-> TRUE,
                                           upload |-> app.uploads + 1,
                                           width |-> image.width,
                                           height |-> image.height]}]
    /\ UNCHANGED <<ed, view, convVars, colorVars, polyVars, segVars>>

\* handleImageUpload after its await (lines 31-36): the file was read, or
\* processImageFile rejected
UploadCompletes ==
    /\ \E image \in app.uploading :
          \/ app' = [app EXCEPT
                       !.uploading = @ \ {image},
                       !.uploadedImage = image,
                       !.currentStep = "segment",
                       !.sinceReset = IF @ = "reset" THEN "uploaded" ELSE @]
          \/ app' = [app EXCEPT !.uploading = @ \ {image}]
    /\ UNCHANGED <<ed, view, convVars, colorVars, polyVars, segVars>>

\* handleStartSegmentation (lines 39-49) with the hook's segmentImage up to
\* its await (lines 10-14) and the service's up to initialize (lines 52-55)
StartSegmentation ==
    /\ app.currentStep = "segment"
    /\ ~app.isSegmenting
    /\ app.uploadedImage.active
    /\ app.starts < MaxStarts
    /\ LET a1 == [app EXCEPT
                    !.starts = @ + 1,
                    !.isSegmenting = TRUE, !.error = "",
                    !.sinceReset = IF @ = "uploaded" THEN "started" ELSE @]
       IN  app' = IF app.isModelLoaded
                  THEN Settled(a1, app.uploadedImage)
                  ELSE [a1 EXCEPT !.call = app.uploadedImage]
    /\ UNCHANGED <<ed, view, convVars, colorVars, polyVars, segVars>>

\* The timer of initialize (line 43) ends: the model is loaded (line 44)
\* and the waiting call goes on to its end
InitializeEnds ==
    /\ app.call.active
    /\ app' = Settled([app EXCEPT !.isModelLoaded = TRUE, !.call = NoCall],
                      app.call)
    /\ UNCHANGED <<ed, view, convVars, colorVars, polyVars, segVars>>

\* handleAreaSelect (lines 51-53): toggleSelectedArea of the store
ToggleArea ==
    /\ app.currentStep = "color"
    /\ app.uploadedImage.active /\ app.segmentation # 0
    /\ \E classId \in AreaIds :
          app' = [app EXCEPT !.selectedAreas =
                     IF classId \in @ THEN @ \ {classId}
                     ELSE @ \cup {classId}]
    /\ UNCHANGED <<ed, view, convVars, colorVars, polyVars, segVars>>

\* Back (line 227)
BackToSegment ==
    /\ app.currentStep = "color"
    /\ app' = [app EXCEPT !.currentStep = "segment"]
    /\ UNCHANGED <<ed, view, convVars, colorVars, polyVars, segVars>>

\* handleReset (lines 55-61)
Reset ==
    /\ app.currentStep \in {"segment", "color"}
    /\ app.resets < MaxResets
    /\ app' = [app EXCEPT !.uploadedImage = NoCall,
                          !.segmentation = 0,
                          !.selectedAreas = {},
                          !.currentStep = "upload",
                          !.sinceReset = "reset",
                          !.resets = @ + 1]
    /\ UNCHANGED <<ed, view, convVars, colorVars, polyVars, segVars>>

NextApp ==
    \/ UploadStarts \/ UploadCompletes \/ StartSegmentation
    \/ InitializeEnds \/ ToggleArea
    \/ BackToSegment \/ Reset

(***************************************************************************)
(* The segmentation viewer (components/SegmentationViewer.tsx)             *)
(***************************************************************************)
\* The classes of a result (SEGMENTATION_CLASSES, cut to its first ids) and
\* the values a mask entry may hold
ViewClasses == 0..2
ViewWidth == 2
ViewHeight == 1

\* The masks of a result: any class id, any data
ViewMasks ==
    {[classId |-> c, data |-> d] :
        c \in ViewClasses, d \in [1..(ViewWidth * ViewHeight) -> ViewClasses]}
ViewResults == {<<>>} \cup {<<m>> : m \in ViewMasks}
    \cup {<<m, n>> : m \in ViewMasks, n \in {k \in ViewMasks : k.data[1] = 0}}

\* mask.data[pixelIndex] (line 123): undefined, written -1, past the end
DataAt(data, pixelIndex) ==
    IF pixelIndex + 1 \in DOMAIN data THEN data[pixelIndex + 1] ELSE 0 - 1

\* getClassAtPixel (lines 116-131) over the masks from position k on
RECURSIVE ClassFrom(_, _, _)
ClassFrom(masks, k, pixelIndex) ==
    IF k > Len(masks) THEN 0
    ELSE IF DataAt(masks[k].data, pixelIndex) = masks[k].classId
         THEN masks[k].classId
         ELSE ClassFrom(masks, k + 1, pixelIndex)
getClassAtPixel(masks, x, y) == ClassFrom(masks, 1, y * ViewWidth + x)

\* clickedClassId && clickedClassId !== 0 (line 110)
IsAnyClass(clickedClassId) == TRUE
IsSelectableClass(clickedClassId) == clickedClassId # 0

\* The classes the legend offers (lines 223-225)
LegendClasses == {c \in ViewClasses : IsSelectableClass(c)}

\* toggleSelectedArea of the store (store/index.ts lines 120-125)
toggleSelectedArea(selectedAreas, classId) ==
    IF \E k \in DOMAIN selectedAreas : selectedAreas[k] = classId
    THEN SelectSeq(selectedAreas, LAMBDA id : id # classId)
    ELSE Append(selectedAreas, classId)

InitViewer ==
    /\ \E r \in ViewResults :
          view = [pc |-> "shown", masks |-> r, selectedAreas |-> <<>>,
                  clicked |-> 0 - 1]
    /\ ed = EdIdleState /\ app = AppIdleState
    /\ conv = ConvIdle /\ ColorIdle /\ PolyIdle /\ SegIdle

\* handleStageClick (lines 93-113) at the image position the pointer maps to
StageClick ==
    /\ view.pc = "shown"
    /\ \E imageX \in (0 - 1)..ViewWidth, imageY \in (0 - 1)..ViewHeight :
          IF imageX < 0 \/ imageX >= ViewWidth
                \/ imageY < 0 \/ imageY >= ViewHeight
          THEN view' = [view EXCEPT !.clicked = 0 - 1]
          ELSE LET clickedClassId == getClassAtPixel(view.masks, imageX, imageY)
               IN  view' = [view EXCEPT
                     !.clicked = clickedClassId,
                     !.selectedAreas =
                        IF IsSelectableClass(clickedClassId)
                        THEN toggleSelectedArea(@, clickedClassId)
                        ELSE @]
    /\ UNCHANGED <<ed, app, convVars, colorVars, polyVars, segVars>>

\* A button of the class legend (lines 223-233)
LegendClick ==
    /\ view.pc = "shown"
    /\ \E classId \in LegendClasses :
          view' = [view EXCEPT
                     !.selectedAreas = toggleSelectedArea(@, classId)]
    /\ UNCHANGED <<ed, app, convVars, colorVars, polyVars, segVars>>

NextViewer == StageClick \/ LegendClick

(***************************************************************************)
(* createCombinedMask of the editor (CanvasEditor.tsx lines 165-218)       *)
(***************************************************************************)
\* Image sizes, class ids and mask lists tried.  A mask holds its class id
\* at its pixels, as the detectors and polygonToMask write it; its data may
\* be shorter or longer than the image.  The callers pass a list that is
\* not empty and have the image data (lines 231-234, 492, 522).
CombineSizes == {<<2, 1>>, <<2, 2>>}
CombineClassIds == 1..3
CombineDataOf(n, c) ==
    UNION {[1..len -> {0, c}] : len \in (IF n = 2 THEN 1..3 ELSE {n})}
CombineMasksOf(n) ==
    UNION {{[classId |-> c, data |-> d] : d \in CombineDataOf(n, c)} :
              c \in CombineClassIds}
CombineLists(n) ==
    {<<m>> : m \in CombineMasksOf(n)}
    \cup {<<m, k>> : m \in CombineMasksOf(n), k \in CombineMasksOf(n)}

\* masks.forEach (lines 183-200) from mask k on; a write past the end of a
\* Uint8Array is dropped and a stored value is taken modulo 256
RECURSIVE CombineFirst(_, _, _)
CombineFirst(combined, masks, k) ==
    IF k > Len(masks) THEN combined
    ELSE CombineFirst(
           [i \in 1..Len(combined) |->
              IF i <= Len(masks[k].data) /\ masks[k].data[i] > 0
                   /\ combined[i] = 0
              THEN masks[k].classId % 256 ELSE combined[i]],
           masks, k + 1)

RECURSIVE CombineFrom(_, _, _)
CombineFrom(combined, masks, k) ==
    IF k > Len(masks) THEN combined
    ELSE CombineFrom(
           [i \in 1..Len(combined) |->
              IF i <= Len(masks[k].data) /\ masks[k].data[i] > 0
              THEN masks[k].classId % 256 ELSE combined[i]],
           masks, k + 1)

createCombinedMask(masks, originalImageData) ==
    IF Len(masks) = 0 \/ ~originalImageData.present
    THEN <<>>
    ELSE CombineFrom(
           [i \in 1..(originalImageData.width * originalImageData.height)
              |-> 0],
           masks, 1)

InitCombine ==
    /\ \E size \in CombineSizes :
          \E masks \in CombineLists(size[1] * size[2]) :
             ed = [pc |-> "masks", masks |-> masks,
                   originalImageData |-> [present |-> TRUE,
                                          width |-> size[1],
                                          height |-> size[2]],
                   combinedMask |-> <<>>]
    /\ app = AppIdleState /\ view = ViewIdleState
    /\ conv = ConvIdle /\ ColorIdle /\ PolyIdle /\ SegIdle

CombineMasks ==
    /\ ed.pc = "masks"
    /\ ed' = [ed EXCEPT
                !.pc = "combined",
                !.combinedMask =
                    createCombinedMask(ed.masks, ed.originalImageData)]
    /\ UNCHANGED <<app, view, convVars, colorVars, polyVars, segVars>>

NextCombine == CombineMasks

(***************************************************************************)
(* The segmentation service and its hook under any callers                 *)
(* (services/segmentation.ts lines 36-66, hooks/useSegmentation.ts)        *)
(*                                                                         *)
(* segmentImage of the hook has no guard of its own: a caller may call it  *)
(* while an earlier call waits for the timer of initialize.                *)
(***************************************************************************)
\* Callers, and how many calls are followed
Callers == 1..3
MaxCalls == 4

\* if (!this.isModelLoaded) await this.initialize() (lines 53-55)
NeedsInitialize(isModelLoaded) == ~isModelLoaded

\* analyzeImageContent is entered (line 59), then the hook's continuation
\* (lines 15-25): the call of caller c ends with a result or a failure
AnalysisRuns(sv, c, ok) ==
    [sv EXCEPT !.phase[c] = IF ok THEN "result" ELSE "failed",
               !.analysedUnready = @ \/ ~sv.isModelLoaded,
               !.error = IF ok THEN @ ELSE "Segmentation failed",
               !.isSegmenting = FALSE]

InitService ==
    /\ seg = [pc |-> "service", isModelLoaded |-> FALSE,
              phase |-> [c \in Callers |-> "idle"],
              isSegmenting |-> FALSE, error |-> "",
              initializeRuns |-> 0, analysedUnready |-> FALSE,
              unloaded |-> FALSE, calls |-> 0]
    /\ img = SegIdleState
    /\ conv = ConvIdle /\ ColorIdle /\ PolyIdle /\ UiIdle

\* A caller calls the hook's segmentImage (lines 9-14) and through it the
\* service's (lines 52-59), up to the first wait
CallSegmentImage ==
    /\ seg.pc = "service"
    /\ seg.calls < MaxCalls
    /\ \E c \in Callers, ok \in BOOLEAN :
          /\ seg.phase[c] # "initializing"
          /\ LET sv == [seg EXCEPT !.calls = @ + 1, !.isSegmenting = TRUE,
                                   !.error = ""]
             IN  seg' = IF NeedsInitialize(seg.isModelLoaded)
                        THEN [sv EXCEPT !.phase[c] = "initializing",
                                        !.initializeRuns = @ + 1]
                        ELSE AnalysisRuns(sv, c, ok)
    /\ UNCHANGED <<img, convVars, colorVars, polyVars, uiVars>>

\* The timer of a running initialize ends (lines 43-45) and its call goes on
InitializeResolves ==
    /\ seg.pc = "service"
    /\ \E c \in Callers, ok \in BOOLEAN :
          /\ seg.phase[c] = "initializing"
          /\ seg' = AnalysisRuns([seg EXCEPT !.isModelLoaded = TRUE], c, ok)
    /\ UNCHANGED <<img, convVars, colorVars, polyVars, uiVars>>

NextService == CallSegmentImage \/ InitializeResolves

(***************************************************************************)
(* Specifications                                                          *)
(***************************************************************************)
SpecConv == InitConv /\ [][NextConv]_vars

SpecColor == InitColor /\ [][NextColor]_vars

SpecHex == InitHex /\ [][NextHex]_vars
SpecScene == InitScene /\ [][NextScene]_vars
SpecTone == InitTone /\ [][NextTone]_vars

SpecPoly == InitPoly /\ [][NextPoly]_vars

SpecClassify == InitClassify /\ [][NextClassify]_vars

\* The two loops run synchronously to their end: a step that can be taken
\* is taken
SpecFill == InitFill /\ [][NextFill]_vars /\ WF_vars(NextFill)
SpecEditor == InitEditor /\ [][NextEditor]_vars

\* The editor with the event loop's guarantee that a queued continuation is
\* run: the transforms of colorProcessor contain no wait, so the promise
\* awaited at lines 264-266 and 525 is settled when the handler returns
SpecEditorLive == InitEditor /\ [][NextEditor]_vars /\ WF_vars(Resume)

SpecApp == InitApp /\ [][NextApp]_vars

SpecViewer == InitViewer /\ [][NextViewer]_vars

SpecCombine == InitCombine /\ [][NextCombine]_vars

SpecService == InitService /\ [][NextService]_vars

(***************************************************************************)
(* Claims                                                                  *)
(***************************************************************************)
Ran == last.kind # "none" /\ last.ok
OutData == heap[last.outId].data
InData == last.input.data
SelectedPixels == {i \in 1..Len(last.mask) : last.mask[i] > 0}
Lightness(px) == {x.l : x \in rgbToHsl(px[1], px[2], px[3])}
BlendFactor(i) ==
    IF last.options.blendEdges
    THEN calculateEdgeBlending(last.mask, i - 1, last.input.width,
                               last.input.height)
    ELSE <<1, 1>>

\* C1: after every run of applyColorChange, under any options, every pixel
\* with mask[i] = 0 has all four channels of the output equal to the input's.
C1_UnselectedPassThrough ==
    Ran => \A i \in 1..Len(last.mask) :
              last.mask[i] = 0 => OutData[i] = InData[i]

C1_Witness ==
    /\ Ran
    /\ \E i, j \in 1..Len(last.mask) :
          /\ last.mask[i] = 0
          /\ last.mask[j] > 0
          /\ OutData[j] # InData[j]

\* C2: no engine call, in any sequence of preview and final calls, changes
\* the original buffer or the buffer handed to applyColorChange; the result
\* is another buffer, of the input's width and height, with the input's
\* alpha at every pixel.
C2_InputNeverWritten ==
    [][/\ heap'[OrigId] = heap[OrigId]
       /\ (last'.kind # "none" /\ last'.ok) =>
             /\ heap'[last'.inId] = last'.input
             /\ last'.outId # last'.inId
             /\ last'.outId # OrigId
             /\ heap'[last'.outId].width = last'.input.width
             /\ heap'[last'.outId].height = last'.input.height
             /\ Len(heap'[last'.outId].data) = Len(last'.input.data)
             /\ \A i \in 1..Len(last'.input.data) :
                   heap'[last'.outId].data[i][4] = last'.input.data[i][4]]_vars

C2_Witness ==
    /\ Ran
    /\ last.kind = "preview"
    /\ \E i \in 1..Len(InData) : OutData[i] # InData[i]
    /\ \E i \in 1..Len(InData) : InData[i][4] # 255

\* C3 (as claimed): with intensity = 0 every selected pixel of the output
\* equals the input pixel.
C3_ZeroIntensityNoChange ==
    (Ran /\ last.options.intensity = 0) =>
        \A i \in SelectedPixels : OutData[i] = InData[i]

\* C4 (as claimed): with preserveTexture and intensity = 1 the lightness
\* rgbToHsl derives from a selected output pixel is that of the input pixel
\* (here even allowing one percent point of rounding).
C4_LightnessPreserved ==
    (Ran /\ last.options.preserveTexture /\ last.options.intensity = IntDen) =>
        \A i \in SelectedPixels :
            \A lo \in Lightness(OutData[i]), li \in Lightness(InData[i]) :
                Abs(lo - li) <= 1

\* C4 (amended): the same, exactly, for the selected pixels whose edge-blend
\* factor is 1 (blendEdges off, or every in-bounds pixel of the 5x5 window
\* selected).
C4_LightnessPreservedUnblended ==
    (Ran /\ last.options.preserveTexture /\ last.options.intensity = IntDen) =>
        \A i \in SelectedPixels :
            BlendFactor(i) = <<1, 1>> =>
                \A lo \in Lightness(OutData[i]), li \in Lightness(InData[i]) :
                    lo = li

C4_Witness ==
    /\ Ran /\ last.options.preserveTexture /\ last.options.intensity = IntDen
    /\ last.options.blendEdges
    /\ \E i \in SelectedPixels :
          /\ BlendFactor(i) = <<1, 1>>
          /\ OutData[i] # InData[i]
          /\ InData[i][1] # InData[i][2]

\* C5 (as claimed): hslToRgb(rgbToHsl(r, g, b)) is within 1 of r, g and b.
C5_RoundTripWithinOne ==
    conv.pc = "done" =>
        /\ Abs(conv.back.r - conv.r) <= 1
        /\ Abs(conv.back.g - conv.g) <= 1
        /\ Abs(conv.back.b - conv.b) <= 1

\* The point list is a rectangle (x0,y0),(x1,y0),(x1,y1),(x0,y1) whose
\* corners are pixels of the image.
IsInnerRectangle(points, width, height) ==
    /\ Len(points) = 8
    /\ points = Rectangle(points[1], points[2], points[5], points[6])
    /\ 0 <= points[1] /\ points[1] < points[5] /\ points[5] <= width - 1
    /\ 0 <= points[2] /\ points[2] < points[6] /\ points[6] <= height - 1

\* C6 (as claimed): polygonToMask of such a rectangle sets to classId exactly
\* the pixels with x0 <= x < x1 and y0 <= y < y1 and leaves the others 0.
C6_RectangleHalfOpen ==
    (poly.pc = "done" /\ IsInnerRectangle(poly.points, poly.width, poly.height))
    => \A x \in 0..(poly.width - 1), y \in 0..(poly.height - 1) :
          poly.mask[y * poly.width + x + 1] =
             (IF /\ poly.points[1] <= x /\ x < poly.points[5]
                 /\ poly.points[2] <= y /\ y < poly.points[6]
              THEN poly.classId ELSE 0)

Classified == seg.pc = "done"
IsScenario == img = ScenarioImage
Area == img.width * img.height
MaskOf(classId) == {j \in 1..Len(seg.masks) : seg.masks[j].classId = classId}
Filled(msk) == Cardinality({k \in 1..Len(msk) : msk[k] # 0})
\* The non-zero entries of msk are exactly those of the rows top..bottom
CoversRows(msk, top, bottom) ==
    \A k \in 1..Len(msk) :
        msk[k] # 0 <=> ((k - 1) \div img.width) \in top..bottom

C8_MaskEntriesAndConfidence ==
    Classified =>
        \A j \in 1..Len(seg.masks) :
            LET m == seg.masks[j]
                count == Cardinality({k \in 1..Len(m.data) :
                                         m.data[k] = m.classId})
            IN  /\ Len(m.data) = Area
                /\ \A k \in 1..Len(m.data) : m.data[k] \in {0, m.classId}
                /\ m.confidence = <<count, Area>>
                /\ 0 <= count /\ count <= Area

C8_Witness ==
    /\ Classified
    /\ \E i, j \in 1..Len(seg.masks) :
          /\ seg.masks[i].classId # seg.masks[j].classId
          /\ 0 < seg.masks[i].confidence[1]
          /\ seg.masks[i].confidence[1] < seg.masks[j].confidence[1]
          /\ seg.masks[j].confidence[1] < Area
          /\ \E k \in 1..Area : /\ seg.masks[i].data[k] # 0
                                 /\ seg.masks[j].data[k] # 0

\* C9: the 100x100 image, #87CEEB in rows 0-59 and #228B22 in rows 60-99,
\* gets one sky mask, non-zero exactly in rows 0-59, of confidence 0.6.
C9_ScenarioSkyMask ==
    (Classified /\ IsScenario) =>
        /\ Cardinality(MaskOf(7)) = 1
        /\ \A j \in MaskOf(7) :
              /\ seg.masks[j].className = "sky"
              /\ CoversRows(seg.masks[j].data, 0, 59)
              /\ 10 * seg.masks[j].confidence[1] = 6 * seg.masks[j].confidence[2]

C9_Witness ==
    /\ Classified
    /\ IsScenario
    /\ \E j \in MaskOf(7) : seg.masks[j].data[1] = 7

C11_ScenarioNoHouseParts ==
    (Classified /\ IsScenario) =>
        /\ \A classId \in {1, 2, 3, 4} : MaskOf(classId) = {}
        /\ \A n \in 1..Len(seg.detectedRegions) :
              seg.detectedRegions[n].classId \in {1, 2, 3, 4}
                 => 10 * Filled(seg.detectedRegions[n].mask) <= Area

\* C11 (amended): the same image gets no roof, windows or doors mask, each of
\* these detectors staying at or below a tenth of the pixels, and it does get
\* one walls mask: rows 20-79 without the edge pixels of rows 59 and 60
\* (columns 1-98), of confidence 0.5804.
C11_ScenarioWallsOnly ==
    (Classified /\ IsScenario) =>
        /\ \A classId \in {2, 3, 4} : MaskOf(classId) = {}
        /\ \A n \in 1..Len(seg.detectedRegions) :
              seg.detectedRegions[n].classId \in {2, 3, 4}
                 => 10 * Filled(seg.detectedRegions[n].mask) <= Area
        /\ Cardinality(MaskOf(1)) = 1
        /\ \A j \in MaskOf(1) :
              /\ seg.masks[j].className = "walls"
              /\ seg.masks[j].confidence = <<5804, 10000>>
              /\ \A k \in 1..Area :
                    LET x == (k - 1) % img.width
                        y == (k - 1) \div img.width
                    IN  seg.masks[j].data[k] # 0
                           <=> /\ y \in 20..79
                               /\ ~(y \in {59, 60} /\ x \in 1..98)

C11_Witness ==
    /\ Classified
    /\ IsScenario
    /\ \E j \in MaskOf(1) : seg.masks[j].data[20 * img.width + 1] = 1
    /\ \E n \in 1..Len(seg.detectedRegions) :
          /\ seg.detectedRegions[n].classId = 3
          /\ Filled(seg.detectedRegions[n].mask) = 598

\* The scenario of C12: the 10x10 image of #808080, wholly selected, recoloured
\* at full resolution to #FF0000 with preserveTexture, intensity 1 and no
\* edge blending.
GrayToRed ==
    /\ Ran
    /\ last.kind = "final"
    /\ last.input = UniformImage(10, 10, Gray)
    /\ last.mask = FullMask(10, 10)
    /\ last.options = [newColor |-> Red, preserveTexture |-> TRUE,
                       blendEdges |-> FALSE, intensity |-> IntDen]

\* C12: in that scenario the 100 output pixels are identical, the lightness
\* derived from each is the input's, 50, and its hue is red's, 0, with a
\* saturation above 0.
C12_GrayToRedKeepsLightness ==
    GrayToRed =>
        /\ Len(OutData) = 100
        /\ \A i \in 1..Len(OutData) :
              /\ OutData[i] = OutData[1]
              /\ Lightness(InData[i]) = {50}
              /\ \A x \in rgbToHsl(OutData[i][1], OutData[i][2], OutData[i][3]) :
                    x.l = 50 /\ x.h = 0 /\ x.s > 0

C12_Witness ==
    /\ GrayToRed
    /\ OutData[1] = <<204, 51, 51, 255>>
    /\ OutData[100] # InData[100]

\* C13: a preview is the transform of the downsampled image and mask under
\* the caller's options with blendEdges set to false, whatever the caller
\* passed for it; a direct applyColorChange is the transform under the
\* caller's options as they are, blendEdges included.
C13_PreviewNeverBlends ==
    Ran =>
        /\ last.kind = "preview" =>
              OutData \in TransformData(last.input, last.mask,
                             [newColor |-> last.asked.newColor,
                              preserveTexture |-> last.asked.preserveTexture,
                              blendEdges |-> FALSE,
                              intensity |-> last.asked.intensity])
        /\ last.kind = "final" =>
              OutData \in TransformData(last.input, last.mask, last.asked)

\* A preview asked with blendEdges = true whose result is not what blending
\* would have given
C13_Witness ==
    /\ Ran
    /\ last.kind = "preview"
    /\ last.asked.blendEdges
    /\ last.asked.intensity > 0
    /\ \E i, j \in 1..Len(last.mask) : last.mask[i] > 0 /\ last.mask[j] = 0
    /\ OutData \notin TransformData(last.input, last.mask, last.asked)

\* Six hexadecimal digits after an optional leading "#"
IsSixHexDigits(hex) ==
    \E n \in {0, 1} :
        /\ Len(hex) = 6 + n
        /\ n = 1 => hex[1] = "#"
        /\ \A i \in 1..6 :
              hex[n + i] \in {"0", "1", "2", "3", "4", "5", "6", "7", "8", "9",
                              "a", "b", "c", "d", "e", "f",
                              "A", "B", "C", "D", "E", "F"}
Black == <<"0", "0", "0", "0", "0", "0">>

\* C17: for a string that is not six hexadecimal digits after an optional "#"
\* (the empty string, the three-digit shorthand, extra characters), hexToRgb
\* returns (0,0,0), and applyColorChange with such a target completes with
\* the result it gives for the target 000000.
C17_MalformedHexIsBlack ==
    /\ (conv.pc = "parsed" /\ ~IsSixHexDigits(conv.hex)) =>
          conv.rgb = [r |-> 0, g |-> 0, b |-> 0]
    /\ (last.kind = "final" /\ ~IsSixHexDigits(last.asked.newColor)) =>
          /\ last.ok
          /\ OutData \in TransformData(last.input, last.mask,
                             [last.asked EXCEPT !.newColor = Black])

C17_Witness ==
    /\ conv.pc = "parsed"
    /\ conv.hex = <<"#", "F", "F", "F">>
    /\ Ran
    /\ last.asked.newColor = conv.hex
    /\ ~last.asked.preserveTexture
    /\ last.asked.intensity = IntDen
    /\ OutData = <<(<<0, 0, 0, 255>>)>>

\* C18: classify of a buffer without area (width 0 or height 0) ends in a
\* failure handed to the caller, never in a result, and classify of a buffer
\* with area ends in a result.
C18_ZeroAreaFails ==
    /\ seg.pc = "failed" => (Area = 0 /\ seg.masks = <<>>)
    /\ seg.pc = "done" => Area > 0

C18_Witness ==
    /\ seg.pc = "failed"
    /\ img.width = 0
    /\ img.height > 0
    /\ seg.isModelLoaded

\* The editor is quiet: the debounce window after the last change is over
\* and what it scheduled has run.
Quiet ==
    /\ ed.sinceChange >= DebounceMs
    /\ ed.micro = <<>>
    /\ ~(ed.timer.active /\ ed.timer.remaining = 0)

C15_OnlyLatestPreviewShown ==
    [][(ed'.previewImage # ed.previewImage /\ ed'.previewImage # 0) =>
          ed'.previewImage = ed.preview.id]_vars

\* Full-resolution transforms that were started and whose continuation has
\* not run yet
FinalsInFlight ==
    {k \in 1..Len(ed.micro) : ed.micro[k].kind \in {"final", "test"}}

\* C16: while a full-resolution transform is started and not completed,
\* isProcessing is true and the Apply trigger is disabled, so that at most
\* one such transform is in flight, also when a debounced preview is due.
C16_ApplyDisabledWhileFinalRuns ==
    /\ FinalsInFlight # {} => (ed.isProcessing /\ ApplyDisabled(ed))
    /\ Cardinality(FinalsInFlight) <= 1

C16_Witness ==
    /\ FinalsInFlight # {}
    /\ ed.micro[1].kind = "final"
    /\ ed.isProcessing
    /\ ed.timer.active /\ ed.timer.remaining = 0
    /\ ed.started = 1

\* C19: when a segmentation call fails, the error is recorded and
\* isSegmenting is false again, and the uploaded image, the selected areas,
\* the stored segmentation and the current step are as before the failure.
C19_FailureKeepsState ==
    [][app'.failures # app.failures =>
          /\ app'.error # ""
          /\ ~app'.isSegmenting
          /\ app'.uploadedImage = app.uploadedImage
          /\ app'.selectedAreas = app.selectedAreas
          /\ app'.segmentation = app.segmentation
          /\ app'.currentStep = app.currentStep]_vars

C19_Witness ==
    /\ app.failures > 0
    /\ app.error # ""
    /\ ~app.isSegmenting
    /\ app.uploadedImage.active
    /\ app.currentStep = "segment"
    /\ app.segmentation # 0
    /\ app.selectedAreas # {}

\* C20: after Start Over the stored segmentation is null and no area is
\* selected, until a new image was uploaded and a segmentation started for
\* it, also when a call was in flight at the reset.
C20_ResetStaysClear ==
    app.sinceReset \in {"reset", "uploaded"} =>
        (app.segmentation = 0 /\ app.selectedAreas = {})

\* C21: whatever is clicked on the stage or in the legend, class id 0
\* (background) is never among the selected areas.
C21_BackgroundNeverSelected ==
    view.pc = "shown" =>
        \A k \in DOMAIN view.selectedAreas : view.selectedAreas[k] # 0

C21_Witness ==
    /\ view.pc = "shown"
    /\ view.clicked = 0
    /\ Len(view.masks) > 0 /\ view.masks[1].classId = 0
    /\ view.selectedAreas # <<>>

\* The masks of the list that are non-zero at entry i, and what a combined
\* mask is said to hold
OwnersAt(i) ==
    {k \in DOMAIN ed.masks :
        i <= Len(ed.masks[k].data) /\ ed.masks[k].data[i] > 0}

IsCombinationOfMasks ==
    /\ Len(ed.combinedMask) =
          ed.originalImageData.width * ed.originalImageData.height
    /\ \A i \in DOMAIN ed.combinedMask :
          /\ ed.combinedMask[i] =
                IF OwnersAt(i) = {} THEN 0
                ELSE ed.masks[CHOOSE k \in OwnersAt(i) :
                                 \A j \in OwnersAt(i) : j <= k].classId
          /\ ed.combinedMask[i] \in
                {0} \cup {ed.masks[k].classId : k \in DOMAIN ed.masks}

\* C22: the combined mask of the selected masks has width x height
\* entries, each 0 where no mask of the list is non-zero and else the class
\* id of the last mask of the list that is non-zero there.
C22_CombinedMaskIsLastWins ==
    ed.pc = "combined" => IsCombinationOfMasks

C22_Witness ==
    /\ ed.pc = "combined"
    /\ ed.originalImageData.present
    /\ Len(ed.masks) = 2
    /\ ed.masks[1].classId = 1 /\ ed.masks[2].classId = 2
    /\ ed.masks[1].data = <<1, 1, 0, 0>>
    /\ ed.masks[2].data = <<0, 2, 2, 0>>
    /\ ed.combinedMask = <<1, 2, 2, 0>>

\* The saturation C23 states for a pixel of HSL o recoloured to the target
\* of HSL t with preserveTexture, in 1/SD percent
TextureSaturation(o, t) ==
    IF o.l < 15 THEN Min2(o.s, 20) * SD
    ELSE IF o.l > 85 THEN Min2(o.s, 30) * SD
    ELSE Max2(25 * SD, ((o.s * 4 + t.s * 6) * SD) \div 10)

TargetHsl ==
    LET newRgb == hexToRgb(last.options.newColor)
    IN  rgbToHsl(newRgb.r, newRgb.g, newRgb.b)

\* C23: with preserveTexture and intensity 1, the HSL handed to hslToRgb for
\* a selected pixel has the target's hue, the pixel's lightness and the
\* saturation min(s, 20) below lightness 15, min(s, 30) above 85 and
\* max(25, 0.4 s + 0.6 target s) between; without edge blending the output
\* pixel is the RGB of that HSL.
C23_TextureSaturationRule ==
    (/\ Ran
     /\ last.kind = "final"
     /\ last.options.preserveTexture
     /\ last.options.intensity = IntDen) =>
        \A i \in SelectedPixels :
           /\ \A o \in rgbToHsl(InData[i][1], InData[i][2], InData[i][3]) :
              \A t \in TargetHsl :
                 NewHsl(o, t, last.options) =
                    [hn |-> t.h * HD, sn |-> TextureSaturation(o, t),
                     l |-> o.l]
           /\ ~last.options.blendEdges =>
                 \E o \in rgbToHsl(InData[i][1], InData[i][2], InData[i][3]) :
                 \E t \in TargetHsl :
                 \E c \in hslToRgb(t.h * HD, TextureSaturation(o, t), o.l) :
                    OutData[i] = <<c.r, c.g, c.b, InData[i][4]>>

C23_Witness ==
    /\ Ran
    /\ last.kind = "final"
    /\ last.options.preserveTexture
    /\ last.options.intensity = IntDen
    /\ ~last.options.blendEdges
    /\ last.mask = <<1, 1>>
    /\ InData[1] = <<0, 0, 3, 255>>
    /\ \E o \in rgbToHsl(0, 0, 3) : o.l < 15 /\ o.s > 20
    /\ \E o \in rgbToHsl(128, 128, 128) : \E t \in TargetHsl :
          TextureSaturation(o, t) = 25 * SD
    /\ OutData[2] # InData[2]

\* The entries of the last mask within two columns and two rows of entry i
\* (the in-bounds positions of its 5x5 window), and the selected ones
WindowOf(i) ==
    LET w == last.input.width
    IN  {k \in 1..Len(last.mask) :
            /\ Abs(((k - 1) % w) - ((i - 1) % w)) <= 2
            /\ Abs(((k - 1) \div w) - ((i - 1) \div w)) <= 2}
SelectedOf(i) == {k \in WindowOf(i) : last.mask[k] > 0}

WallsMask == seg.detectedRegions[3].mask
RegionSize(k) ==
    Cardinality({j \in 1..Len(seg.colorRegions) :
                    seg.colorRegions[j] = seg.colorRegions[k]})

\* C25: a pixel is in the walls mask exactly when its row is in
\* floor(0.2 height) .. floor(0.8 height) - 1, it is no edge pixel and its
\* colour region holds at least a twentieth of the pixels.
C25_WallsIffRegionAtLeastTwentieth ==
    Classified =>
        \A k \in 1..Len(WallsMask) :
            WallsMask[k] # 0 <=>
               /\ FloorTenths(img.height, 2) <= (k - 1) \div img.width
               /\ (k - 1) \div img.width < FloorTenths(img.height, 8)
               /\ seg.edgeMap[k] = 0
               /\ 20 * RegionSize(k) >= Area

\* C26: the service never goes back from Ready to Uninitialized, initialize
\* runs at most once over any calls, overlapping ones included, and the
\* analysis is entered only when the service is Ready.
C26_InitializeRunsOnce ==
    seg.pc = "service" =>
        /\ ~seg.unloaded
        /\ ~seg.analysedUnready
        /\ seg.initializeRuns <= 1

\* C27: whenever the step is segment or color an uploaded image is present,
\* and whenever it is color a segmentation is stored, however uploads,
\* segmentation calls, Back and Start Over interleave.
C27_StepHasItsData ==
    app.pc = "running" =>
        /\ app.currentStep \in {"segment", "color"} => app.uploadedImage.active
        /\ app.currentStep = "color" => app.segmentation # 0

\* C28: every transform of the editor that sets isProcessing ends with
\* isProcessing false, whether it returned or threw: with no transform in
\* flight isProcessing is false and the Apply button is enabled, and a
\* transform in flight is always followed by a state with isProcessing false.
C28_ProcessingAlwaysEnds ==
    /\ [](ed.micro = <<>> => ~ed.isProcessing /\ ~ApplyDisabled(ed))
    /\ (ed.isProcessing ~> ~ed.isProcessing)

\* The only transform issued so far was a preview that threw (a preview that
\* returned would have stored its result), and isProcessing is false again
C28_Witness ==
    /\ ed.pc = "mounted"
    /\ ed.issued = 1 /\ ed.preview.id = 1
    /\ ed.clicks = 0 /\ ed.changes = 0
    /\ ed.micro = <<>> /\ ed.previewImageData = 0
    /\ ~ed.isProcessing /\ ~ApplyDisabled(ed)

\* The divisors y2 - y1 of the intersections computed in row y (line 321)
Divisors(points, y) ==
    {PointAt(points, (i + 3) % Len(points)) - PointAt(points, i + 1) :
        i \in {k \in 0..(Len(points) - 1) :
                  k % 2 = 0 /\ EdgeCrossesRow(points, k, y)}}

\* The columns x of the writes mask[y * width + x] made in row y (line 336)
WrittenColumns(points, width, y) ==
    RowFill(SortAscending(Intersections(points, 0, y)), width)

\* C29: for any point list polygonToMask returns width * height entries,
\* each 0 or classId; every write of a row has 0 <= x <= width - 1, so it
\* stays in that row; and no intersection is computed with divisor 0.
C29_WritesStayInRow ==
    poly.pc = "done" =>
        /\ Len(poly.mask) = poly.width * poly.height
        /\ \A idx \in 1..Len(poly.mask) : poly.mask[idx] \in {0, poly.classId}
        /\ \A y \in 0..(poly.height - 1) :
              /\ WrittenColumns(poly.points, poly.width, y)
                    \subseteq 0..(poly.width - 1)
              /\ 0 \notin Divisors(poly.points, y)
              /\ \A x \in WrittenColumns(poly.points, poly.width, y) :
                    poly.mask[y * poly.width + x + 1] = poly.classId

\* Two vertices, both outside the image: rows are crossed and pixels written
C29_Witness ==
    /\ poly.pc = "done"
    /\ poly.points = <<-2, -1, 8, 6>>
    /\ \E idx \in 1..Len(poly.mask) : poly.mask[idx] = poly.classId
    /\ \E idx \in 1..Len(poly.mask) : poly.mask[idx] = 0

\* The pixels of region id, and those of them connected to the pixels in
\* reached by steps to 4-neighbours inside the region
RegionPixels(id) ==
    {k \in 0..(Len(seg.regions) - 1) : seg.regions[k + 1] = id}

RECURSIVE ConnectedWithin(_, _)
ConnectedWithin(members, reached) ==
    LET more == (UNION {Neighbours(k, img.width, img.height) : k \in reached}
                    \cap members) \ reached
    IN  IF more = {} THEN reached ELSE ConnectedWithin(members, reached \cup more)

RegionsArePartition ==
    /\ Len(seg.regions) = img.width * img.height
    /\ \A k \in 1..Len(seg.regions) :
          /\ seg.regions[k] >= 1
          /\ seg.marks[k] = 1
    /\ {seg.regions[k] : k \in 1..Len(seg.regions)} = 1..Len(seg.seeds)
    /\ \A id \in 1..Len(seg.seeds) :
          /\ seg.regions[seg.seeds[id] + 1] = id
          /\ \A k \in RegionPixels(id) :
                WithinThreshold(PixelAt(img.pixels, k),
                                PixelAt(img.pixels, seg.seeds[id]), 30)
          /\ ConnectedWithin(RegionPixels(id), {seg.seeds[id]})
                = RegionPixels(id)
    /\ seg.regions = analyzeColorRegions(img.pixels, img.width, img.height)

\* C30: for an image with area the colour-region segmentation returns, and
\* then every pixel has exactly one region id >= 1 and was marked visited
\* once, the ids are 1, 2, ... without gaps, every seed is in its own region,
\* and every pixel of a region is within distance 30 of the seed's colour and
\* 4-connected to the seed inside the region.
C30_FillTerminatesWithPartition ==
    /\ [](seg.pc = "returned" => RegionsArePartition)
    /\ [](\A k \in 1..Len(seg.marks) : seg.marks[k] <= 1)
    /\ <>(seg.pc = "returned")

\* Returned with two regions, where a pixel at exactly distance 30 of its seed
\* joined and its neighbour, within 30 of it but not of the seed, did not
C30_Witness ==
    /\ seg.pc = "returned"
    /\ Len(seg.seeds) = 2
    /\ \E k \in RegionPixels(1) :
          /\ PixelAt(img.pixels, k) = <<30, 0, 0, 255>>
          /\ PixelAt(img.pixels, seg.seeds[1]) = <<0, 0, 0, 255>>
          /\ \E j \in Neighbours(k, img.width, img.height) :
                /\ seg.regions[j + 1] = 2
                /\ PixelAt(img.pixels, j) = <<60, 0, 0, 255>>

=============================================================================
